---- MODULE Spec2Model ----
(***************************************************************************)
(* A model of hgrep's syntect printer (src/src/syntect.rs) and of the      *)
(* stdin driver that calls it (src/src/main.rs).                           *)
(*                                                                         *)
(* The Canvas, the Drawer and the printer are written as operators over    *)
(* records that carry the fields of the Rust structs; every operator has   *)
(* the name of the method it models.  The byte stream a Canvas writes is   *)
(* the sequence "out" of items: an SGR escape with its parameters, a       *)
(* character, a space, a literal or a line feed.                           *)
(***************************************************************************)
EXTENDS Integers, Sequences, FiniteSets, TLC

VARIABLES
    canvas,     \* SpecCanvas: the Canvas under test
    calls,      \* SpecCanvas: the calls made on it, each with what it wrote
    lineIn,     \* SpecLine: the line handed to draw_line and its Drawer
    lineRun,    \* SpecLine: how far draw_line has come
    printer,    \* Spec: the SyntectPrinter, with its options
    files,      \* Spec: the files that have not been handed to a worker yet
    workers,    \* Spec: the frame of the print call of each worker thread
    writer,     \* Spec: what has been written to the shared writer, by which call
    lock,       \* Spec: the holder of the lock of the writer
    prints,     \* Spec: the print calls made and how each has gone
    status      \* Spec: the exit status of the process, once main has left

vars == <<canvas, calls, lineIn, lineRun, printer, files, workers, writer, lock, prints, status>>

(***************************************************************************)
(* Option<T>: None is the empty sequence, Some(x) the one-element sequence *)
(***************************************************************************)
None == <<>>
Some(x) == <<x>>
IsSome(o) == o # <<>>
Unwrap(o) == o[1]

U8(n) == n % 256

\* u16 arithmetic of a release build: overflow checks are off and a
\* difference below zero wraps around (a debug build panics instead)
U16(n) == n % 65536

(***************************************************************************)
(* Output items                                                            *)
(***************************************************************************)
Item(k, p, c) == [k |-> k, p |-> p, c |-> c]
\* ESC [ p1 ; p2 ; ... m
Sgr(p) == Item("sgr", p, "")
\* one character of the text; w is the width the Canvas counted for it
Ch(c, w) == Item("ch", <<w>>, c)
\* n spaces written by one call of draw_spaces; tag says on whose behalf:
\* "tab" (an expanded tab), "pad" (filling a row up to a wrap break),
\* "fill" (fill_spaces), "gutter"
Sp(n, tag) == Item("sp", <<n>>, tag)
\* n copies of a piece of gutter, header or rule
Rep(n, s) == Item("lit", <<n>>, s)
Lit(s) == Rep(1, s)
\* a decimal number
Num(n) == Item("num", <<n>>, "")
LF == Item("nl", <<>>, "")

Color(r, g, b, a) == [r |-> r, g |-> g, b |-> b, a |-> a]

\* rgb2ansi256::rgb_to_ansi256, the 24 bit -> 8 bit conversion of the crate
\* the Canvas calls: the grey ramp for r = g = b, the 6x6x6 cube otherwise.
Cube(v) == IF v < 48 THEN 0 ELSE IF v < 115 THEN 1 ELSE (v - 35) \div 40
rgb_to_ansi256(r, g, b) ==
    IF r = g /\ g = b
    THEN IF r < 8 THEN 16
         ELSE IF r > 248 THEN 231
         ELSE U8(((r - 8) * 24) \div 247 + 232)
    ELSE U8(36 * Cube(r) + 6 * Cube(g) + Cube(b) + 16)

(***************************************************************************)
(* Canvas                                                                  *)
(***************************************************************************)
Write(cv, items) == [cv EXCEPT !.out = @ \o items]

\* The loop of draw_spaces writes num spaces; they are kept as one item.
draw_spaces(cv, num, tag) == Write(cv, <<Sp(num, tag)>>)

draw_newline_keeping_memo(cv) == Write(cv, <<Sgr(<<0>>), LF>>)
draw_newline(cv) ==
    [Write(cv, <<Sgr(<<0>>), LF>>) EXCEPT !.current_fg = None, !.current_bg = None]

set_color_off_by_one(cv, code, c) ==
    IF c.a = 0 /\ c.r < 7 THEN Write(cv, <<Sgr(<<U8(c.r + code)>>)>>)
    ELSE IF c.a = 0 THEN Write(cv, <<Sgr(<<U8(code + 8), 5, c.r>>)>>)
    ELSE IF c.a = 1 THEN cv
    ELSE IF cv.true_color THEN Write(cv, <<Sgr(<<U8(code + 8), 2, c.r, c.g, c.b>>)>>)
    ELSE Write(cv, <<Sgr(<<U8(code + 8), 5, rgb_to_ansi256(c.r, c.g, c.b)>>)>>)
set_color(cv, code, c) ==
    IF c.a = 0 /\ c.r <= 7 THEN Write(cv, <<Sgr(<<U8(c.r + code)>>)>>)
    ELSE IF c.a = 0 THEN Write(cv, <<Sgr(<<U8(code + 8), 5, c.r>>)>>)
    ELSE IF c.a = 1 THEN cv
    ELSE IF cv.true_color THEN Write(cv, <<Sgr(<<U8(code + 8), 2, c.r, c.g, c.b>>)>>)
    ELSE Write(cv, <<Sgr(<<U8(code + 8), 5, rgb_to_ansi256(c.r, c.g, c.b)>>)>>)

set_bg_unmemoized(cv, c) == [set_color(cv, 40, c) EXCEPT !.current_bg = Some(c)]
set_bg(cv, c) ==
    IF cv.current_bg # Some(c)
    THEN [set_color(cv, 40, c) EXCEPT !.current_bg = Some(c)]
    ELSE cv

set_fg_unmemoized(cv, c) == [set_color(cv, 30, c) EXCEPT !.current_fg = Some(c)]
set_fg(cv, c) ==
    IF cv.current_fg # Some(c)
    THEN [set_color(cv, 30, c) EXCEPT !.current_fg = Some(c)]
    ELSE cv

set_default_bg(cv) ==
    IF cv.has_background /\ IsSome(cv.theme.background)
    THEN set_bg(cv, Unwrap(cv.theme.background))
    ELSE cv

set_bold(cv) == Write(cv, <<Sgr(<<1>>)>>)
set_underline(cv) == Write(cv, <<Sgr(<<4>>)>>)

set_font_style(cv, style) ==
    LET b == IF "bold" \in style THEN set_bold(cv) ELSE cv
    IN  IF "underline" \in style THEN set_underline(b) ELSE b

unset_font_style(cv, style) ==
    LET b == IF "bold" \in style THEN Write(cv, <<Sgr(<<22>>)>>) ELSE cv
    IN  IF "underline" \in style THEN Write(b, <<Sgr(<<24>>)>>) ELSE b

set_match_bg_color(cv) ==
    IF IsSome(cv.match_bg) THEN set_bg(cv, Unwrap(cv.match_bg)) ELSE cv

set_region_color(cv) ==
    LET f == IF IsSome(cv.region_fg) THEN set_fg(cv, Unwrap(cv.region_fg)) ELSE cv
    IN  IF IsSome(cv.region_bg) THEN set_bg(f, Unwrap(cv.region_bg)) ELSE f

(***************************************************************************)
(* Characters.  A text is a sequence of characters, each one of:           *)
(*   "a", "b"  ASCII letters            1 byte,  1 column                  *)
(*   "W"       a CJK wide character     3 bytes, 2 columns                 *)
(*   "TAB"     U+0009                   1 byte,  no width (control)        *)
(*   "ZWJ"     U+200D                   3 bytes, 0 columns                 *)
(*   "LF", "CR"                         1 byte,  no width (control)        *)
(***************************************************************************)
ByteLen(c) == IF c \in {"W", "ZWJ"} THEN 3 ELSE 1

\* UnicodeWidthChar::width_cjk(c).unwrap_or(0)
width_cjk(c) == IF c = "W" THEN 2 ELSE IF c \in {"a", "b"} THEN 1 ELSE 0

\* str::len(): the length in bytes
RECURSIVE StrLen(_)
StrLen(text) == IF text = <<>> THEN 0 ELSE ByteLen(Head(text)) + StrLen(Tail(text))

Suffix(s, from) == SubSeq(s, from, Len(s))

Token(style, text) == [style |-> style, text |-> text]
Style(fg, bg, font) == [foreground |-> fg, background |-> bg, font_style |-> font]

chomp(tok) ==
    LET n == Len(tok.text) IN
    IF n > 0 /\ tok.text[n] = "LF"
    THEN IF n > 1 /\ tok.text[n - 1] = "CR"
         THEN [tok EXCEPT !.text = SubSeq(@, 1, n - 2)]
         ELSE [tok EXCEPT !.text = SubSeq(@, 1, n - 1)]
    ELSE tok

(***************************************************************************)
(* Region and RegionBoundaries                                             *)
(***************************************************************************)
Region(range) == [range |-> range]

boundary_at(b, idx_in_token) ==
    LET offset == b.offset + idx_in_token IN
    IF b.range[1] = offset THEN [k |-> "Start", fg |-> b.fg]
    ELSE IF b.range[2] = offset THEN [k |-> "End", fg |-> b.fg]
    ELSE [k |-> "None", fg |-> b.fg]

SaturatingSub(a, b) == IF a > b THEN a - b ELSE 0

\* a slide that keeps a region of which nothing is left
slide_left_keeping_empty(region, bytes) ==
    IF IsSome(region.range)
    THEN Region(Some(<<SaturatingSub(Unwrap(region.range)[1], bytes),
                       SaturatingSub(Unwrap(region.range)[2], bytes)>>))
    ELSE region

slide_left(region, bytes) ==
    IF IsSome(region.range)
    THEN LET s == SaturatingSub(Unwrap(region.range)[1], bytes)
             e == SaturatingSub(Unwrap(region.range)[2], bytes)
         IN  Region(IF s # e THEN Some(<<s, e>>) ELSE None)
    ELSE region

boundaries(region, token_start, token_end, fg) ==
    IF ~IsSome(region.range) THEN None
    ELSE LET rs == Unwrap(region.range)[1]
             re == Unwrap(region.range)[2]
             include_start == token_start <= rs /\ rs <= token_end
             include_end == token_start <= re /\ re <= token_end
         IN  IF include_start \/ include_end
             THEN Some([offset |-> token_start, range |-> <<rs, re>>, fg |-> fg])
             ELSE None

contains(region, byte_offset) ==
    /\ IsSome(region.range)
    /\ Unwrap(region.range)[1] <= byte_offset
    /\ byte_offset <= Unwrap(region.range)[2]

(***************************************************************************)
(* Canvas: drawing text                                                    *)
(***************************************************************************)
set_boundary_color(cv, boundary) ==
    IF boundary.k = "Start" THEN set_region_color(cv)
    ELSE IF boundary.k = "End" THEN set_match_bg_color(set_fg(cv, boundary.fg))
    ELSE cv

\* a tab that is cut at the margin is written again on the next row
tab_break_rest_with_tab(text, k) == Suffix(text, k)

\* what is left to draw after a tab that is cut at the margin: &text[i + 1..]
tab_break_rest(text, k) == Suffix(text, k + 1)

\* The loop of draw_text from the k-th character on, which is at byte i.
\* The result is Continue(width) when brk is FALSE and Break(rest) otherwise.
RECURSIVE draw_text_from(_, _, _, _, _, _, _, _)
draw_text_from(cv, text, k, i, width, saw_zwj, limit, bnd) ==
    IF k > Len(text)
    THEN [cv |-> cv, brk |-> FALSE, rest |-> <<>>, width |-> width]
    ELSE
      LET c == text[k]
          cv1 == IF IsSome(bnd)
                 THEN set_boundary_color(cv, boundary_at(Unwrap(bnd), i))
                 ELSE cv
      IN
      IF c = "TAB" /\ cv.tab_width > 0
      THEN LET w == cv.tab_width IN
           IF width + w > limit
           THEN [cv |-> draw_spaces(cv1, limit - width, "tab"), brk |-> TRUE,
                 rest |-> tab_break_rest(text, k), width |-> width]
           ELSE draw_text_from(draw_spaces(cv1, w, "tab"), text, k + 1,
                               i + ByteLen(c), width + w, saw_zwj, limit, bnd)
      ELSE LET w == IF c = "ZWJ" THEN 0
                    ELSE IF saw_zwj THEN 0
                    ELSE width_cjk(c)
               saw == IF c = "ZWJ" THEN TRUE
                      ELSE IF saw_zwj THEN FALSE
                      ELSE saw_zwj
           IN
           IF width + w > limit
           THEN [cv |-> draw_spaces(cv1, limit - width, "pad"), brk |-> TRUE,
                 rest |-> Suffix(text, k), width |-> width]
           ELSE draw_text_from(Write(cv1, <<Ch(c, w)>>), text, k + 1,
                               i + ByteLen(c), width + w, saw, limit, bnd)

draw_text(cv, text, limit, bnd) ==
    draw_text_from(cv, text, 1, 0, 0, FALSE, limit, bnd)

\* With tab_width = 0 the text is written in one piece and its width is
\* str::width_cjk(), the sum of the widths of its characters: the same items
\* and the same width as the loop gives when no tab is expanded.
RECURSIVE draw_text_no_wrap_from(_, _, _, _)
draw_text_no_wrap_from(cv, text, k, width) ==
    IF k > Len(text) THEN [cv |-> cv, width |-> width]
    ELSE LET c == text[k] IN
         IF c = "TAB" /\ cv.tab_width > 0
         THEN draw_text_no_wrap_from(draw_spaces(cv, cv.tab_width, "tab"), text,
                                     k + 1, width + cv.tab_width)
         ELSE draw_text_no_wrap_from(Write(cv, <<Ch(c, width_cjk(c))>>), text,
                                     k + 1, width + width_cjk(c))

draw_text_no_wrap(cv, text) == draw_text_no_wrap_from(cv, text, 1, 0)

\* text.chars().enumerate(): the index handed to boundary_at is k - 1, the
\* number of characters before the character.
RECURSIVE draw_text_no_wrap_with_region_from(_, _, _, _, _)
draw_text_no_wrap_with_region_from(cv, text, k, width, b) ==
    IF k > Len(text) THEN [cv |-> cv, width |-> width]
    ELSE LET c == text[k]
             cv1 == set_boundary_color(cv, boundary_at(b, k - 1))
         IN
         IF c = "TAB" /\ cv.tab_width > 0
         THEN draw_text_no_wrap_with_region_from(
                  draw_spaces(cv1, cv.tab_width, "tab"), text, k + 1,
                  width + cv.tab_width, b)
         ELSE draw_text_no_wrap_with_region_from(
                  Write(cv1, <<Ch(c, width_cjk(c))>>), text, k + 1,
                  width + width_cjk(c), b)

draw_text_no_wrap_with_region(cv, text, b) ==
    draw_text_no_wrap_with_region_from(cv, text, 1, 0, b)

fill_spaces_one_short(cv, written_width, max_width) ==
    IF written_width + 1 < max_width
    THEN draw_spaces(cv, max_width - written_width - 1, "fill")
    ELSE cv
fill_spaces(cv, written_width, max_width) ==
    IF written_width < max_width
    THEN draw_spaces(cv, max_width - written_width, "fill")
    ELSE cv

Wrapping(consumed_bytes, remaining_text, last_token_idx) ==
    [consumed_bytes |-> consumed_bytes, remaining_text |-> remaining_text,
     last_token_idx |-> last_token_idx]

slide_region(wrapping, region) == slide_left(region, wrapping.consumed_bytes)

\* last_token_idx counts from 0, as in the source
eat_written_tokens(wrapping, tokens) ==
    IF wrapping.remaining_text = <<>>
    THEN Suffix(tokens, wrapping.last_token_idx + 2)
    ELSE LET rest == Suffix(tokens, wrapping.last_token_idx + 1)
         IN  [rest EXCEPT ![1].text = wrapping.remaining_text]

\* The loop of draw_matched from the token of index idx (from 1) on.
RECURSIVE draw_matched_from(_, _, _, _, _, _, _)
draw_matched_from(cv, region, tokens, idx, start_offset, width, max_width) ==
    IF idx > Len(tokens)
    THEN [cv |-> fill_spaces(set_match_bg_color(cv), width, max_width),
          wrapping |-> None]
    ELSE
      LET tok == tokens[idx]
          len == StrLen(tok.text)
          end_offset == start_offset + len
          cv1 == IF ~contains(region, start_offset)
                 THEN set_font_style(set_fg(cv, tok.style.foreground),
                                     tok.style.font_style)
                 ELSE cv
          bnd == boundaries(region, start_offset, end_offset, tok.style.foreground)
      IN
      IF cv.wrap
      THEN LET r == draw_text(cv1, tok.text, max_width - width, bnd) IN
           IF r.brk
           THEN [cv |-> r.cv,
                 wrapping |-> Some(Wrapping(end_offset - StrLen(r.rest), r.rest,
                                            idx - 1))]
           ELSE draw_matched_from(unset_font_style(r.cv, tok.style.font_style),
                                  region, tokens, idx + 1, start_offset + len,
                                  width + r.width, max_width)
      ELSE LET r == IF IsSome(bnd)
                    THEN draw_text_no_wrap_with_region(cv1, tok.text, Unwrap(bnd))
                    ELSE draw_text_no_wrap(cv1, tok.text)
           IN  draw_matched_from(unset_font_style(r.cv, tok.style.font_style),
                                 region, tokens, idx + 1, start_offset + len,
                                 width + r.width, max_width)

draw_matched(cv, region, tokens, max_width) ==
    draw_matched_from(set_match_bg_color(cv), region, tokens, 1, 0, 0, max_width)

\* The loop of draw for a line that is no match line.
RECURSIVE draw_from(_, _, _, _, _, _)
draw_from(cv, tokens, idx, byte_offset, width, max_width) ==
    IF idx > Len(tokens)
    THEN LET cv1 == IF width = 0 THEN set_default_bg(cv) ELSE cv
         IN  [cv |-> IF cv.has_background
                     THEN fill_spaces(cv1, width, max_width) ELSE cv1,
              wrapping |-> None]
    ELSE
      LET tok == tokens[idx]
          cv1 == IF cv.has_background THEN set_bg(cv, tok.style.background) ELSE cv
          cv2 == set_font_style(set_fg(cv1, tok.style.foreground),
                                tok.style.font_style)
      IN
      IF cv.wrap
      THEN LET r == draw_text(cv2, tok.text, max_width - width, None) IN
           IF r.brk
           THEN [cv |-> r.cv,
                 wrapping |-> Some(Wrapping(
                     byte_offset + StrLen(tok.text) - StrLen(r.rest), r.rest,
                     idx - 1))]
           ELSE draw_from(unset_font_style(r.cv, tok.style.font_style), tokens,
                          idx + 1, byte_offset + StrLen(tok.text),
                          width + r.width, max_width)
      ELSE LET r == draw_text_no_wrap(cv2, tok.text)
           IN  draw_from(unset_font_style(r.cv, tok.style.font_style), tokens,
                         idx + 1, byte_offset + StrLen(tok.text),
                         width + r.width, max_width)

\* region is an Option<Region>
draw(cv, tokens, region, max_width) ==
    IF IsSome(region)
    THEN draw_matched(cv, Unwrap(region), tokens, max_width)
    ELSE draw_from(cv, tokens, 1, 0, 0, max_width)

(***************************************************************************)
(* Themes: the settings of syntect's Theme that the printer reads          *)
(***************************************************************************)
Grey == Color(128, 128, 128, 255)
Pink == Color(255, 0, 128, 255)
Ansi7 == Color(7, 0, 0, 0)
Ansi8 == Color(8, 0, 0, 0)
PassThrough == Color(7, 0, 0, 1)
Dark == Color(5, 5, 5, 255)

\* a true-colour theme in the manner of "Monokai Extended"
ThemeRgb ==
    [background |-> Some(Dark), foreground |-> Some(Pink),
     gutter_foreground |-> None, find_highlight |-> Some(Pink),
     find_highlight_foreground |-> Some(Dark), selection |-> Some(Grey),
     line_highlight |-> Some(Grey)]
\* a theme in the manner of bat's "ansi": colours encoded in r with a = 0 / 1
ThemeAnsi ==
    [background |-> None, foreground |-> Some(PassThrough),
     gutter_foreground |-> Some(Ansi7), find_highlight |-> None,
     find_highlight_foreground |-> None, selection |-> Some(Ansi7),
     line_highlight |-> None]
\* a theme in the manner of bat's "base16": a bright colour, r above 7
ThemeBase16 == [ThemeAnsi EXCEPT !.gutter_foreground = Some(Ansi8)]

\* themes that differ from the two above and from each other
ThemeSolarizedBat == [ThemeRgb EXCEPT !.foreground = Some(Grey)]
ThemeSolarizedSyntect == [ThemeRgb EXCEPT !.foreground = Some(Dark)]
ThemeGitHub == [ThemeRgb EXCEPT !.background = Some(Grey), !.foreground = Some(Dark)]

\* The fields of a Canvas as Drawer::new sets them
NewCanvas(theme, true_color, tab_width, has_background, wrap) ==
    [out |-> <<>>,
     theme |-> theme,
     true_color |-> true_color,
     tab_width |-> tab_width,
     has_background |-> has_background,
     wrap |-> wrap,
     region_fg |-> IF IsSome(theme.find_highlight)
                   THEN theme.find_highlight_foreground ELSE None,
     region_bg |-> IF IsSome(theme.find_highlight)
                   THEN theme.find_highlight ELSE theme.selection,
     current_fg |-> None,
     current_bg |-> None,
     match_bg |-> IF IsSome(theme.line_highlight)
                  THEN theme.line_highlight ELSE theme.background]

(***************************************************************************)
(* LineChars                                                               *)
(***************************************************************************)
UNICODE_LINE_CHARS ==
    [horizontal |-> "BOX-H", vertical |-> "BOX-V", vertical_and_right |-> "BOX-VR",
     down_and_horizontal |-> "BOX-DH", up_and_horizontal |-> "BOX-UH",
     dashed_horizontal |-> "BOX-DASH"]

ASCII_LINE_CHARS ==
    [horizontal |-> "-", vertical |-> "|", vertical_and_right |-> "|",
     down_and_horizontal |-> "-", up_and_horizontal |-> "-",
     dashed_horizontal |-> "-"]

(***************************************************************************)
(* LineHighlighter.  syntect's parser is kept to what the printer relies   *)
(* on: a state that is carried from line to line, and tokens that cover    *)
(* the line exactly once.  The syntax "Code" has one construct, a block    *)
(* that "b" opens and the next "b" closes, also on a later line; the text  *)
(* inside a block (both "b" included) is one bold token in the block       *)
(* colour.  "Plain Text" gives every line as one token.                    *)
(***************************************************************************)
\* parsed is the record of the lines handed to the parser, in the order of
\* the calls
LineHighlighter_new(syntax, theme) ==
    [syntax |-> syntax, theme |-> theme, in_block |-> FALSE, parsed |-> <<>>]

\* the background of a token is the background of the theme, white when
\* the theme has none
TokenBackground(theme) ==
    IF IsSome(theme.background) THEN Unwrap(theme.background)
    ELSE Color(255, 255, 255, 255)

PlainStyle(theme) == Style(Unwrap(theme.foreground), TokenBackground(theme), {})
BlockStyle(theme) == Style(Ansi7, TokenBackground(theme), {"bold"})

\* The tokens of line from its k-th character on; cur is the token being
\* gathered, in_block the parse state before the character.
RECURSIVE parse_from(_, _, _, _, _)
parse_from(hl, line, k, cur, toks) ==
    LET style == IF hl.in_block THEN BlockStyle(hl.theme) ELSE PlainStyle(hl.theme)
        flush == IF cur = <<>> THEN toks ELSE Append(toks, Token(style, cur))
    IN
    IF k > Len(line) THEN [hl |-> hl, tokens |-> flush]
    ELSE IF line[k] = "b" /\ hl.syntax = "Code"
         THEN IF hl.in_block
              THEN parse_from([hl EXCEPT !.in_block = FALSE], line, k + 1, <<>>,
                              Append(toks, Token(style, Append(cur, "b"))))
              ELSE parse_from([hl EXCEPT !.in_block = TRUE], line, k + 1, <<"b">>,
                              flush)
         ELSE parse_from(hl, line, k + 1, Append(cur, line[k]), toks)

\* parse_state.parse_line(line, ..) of either method
parse_line(hl, op, line) == [hl EXCEPT !.parsed = Append(@, [op |-> op, line |-> line])]

skip_line(hl, line) ==
    parse_from(parse_line(hl, "skip_line", line), line, 1, <<>>, <<>>).hl

\* the highlighter after the line, and the line's tokens
highlight(hl, line) ==
    parse_from(parse_line(hl, "highlight", line), line, 1, <<>>, <<>>)

(***************************************************************************)
(* LinesInclusive                                                          *)
(***************************************************************************)
LinesInclusive_new(buf) == [lnum |-> 1, prev |-> 0, buf |-> buf, iter |-> 0]

\* memchr_iter: the index (from 0) of the next line feed at or after from
RECURSIVE memchr_next(_, _)
memchr_next(buf, from) ==
    IF from >= Len(buf) THEN None
    ELSE IF buf[from + 1] = "LF" THEN Some(from)
    ELSE memchr_next(buf, from + 1)

\* an iterator that gives the lines that end with a line feed only
LinesInclusive_next_line_feed_only(it) ==
    LET found == memchr_next(it.buf, it.iter) IN
    IF IsSome(found)
    THEN LET end == Unwrap(found) + 1 IN
         [it |-> [it EXCEPT !.prev = end, !.lnum = @ + 1, !.iter = end],
          item |-> Some([bytes |-> SubSeq(it.buf, it.prev + 1, end),
                         lnum |-> it.lnum])]
    ELSE [it |-> [it EXCEPT !.iter = Len(it.buf)], item |-> None]

\* Iterator::next: the iterator after the call and the Option<Line> it gives
LinesInclusive_next(it) ==
    LET found == memchr_next(it.buf, it.iter) IN
    IF IsSome(found)
    THEN LET end == Unwrap(found) + 1 IN
         [it |-> [it EXCEPT !.prev = end, !.lnum = @ + 1, !.iter = end],
          item |-> Some([bytes |-> SubSeq(it.buf, it.prev + 1, end),
                         lnum |-> it.lnum])]
    ELSE IF it.prev = Len(it.buf)
    THEN [it |-> [it EXCEPT !.iter = Len(it.buf)], item |-> None]
    ELSE [it |-> [it EXCEPT !.prev = Len(it.buf), !.iter = Len(it.buf)],
          item |-> Some([bytes |-> Suffix(it.buf, it.prev + 1),
                         lnum |-> it.lnum])]

(***************************************************************************)
(* Drawer                                                                  *)
(***************************************************************************)
\* (n as f64).log10() as u16 + 1: the number of decimal digits; log10(0) is
\* -inf, which the cast takes to 0
RECURSIVE num_digits(_)
num_digits(n) == IF n < 10 THEN 1 ELSE 1 + num_digits(n \div 10)

Max(a, b) == IF a >= b THEN a ELSE b

\* PrinterOptions
Opts(tab_width, grid, background_color, ascii_lines, first_only, term_width, text_wrap, color_support) ==
    [tab_width |-> tab_width, grid |-> grid, background_color |-> background_color,
     ascii_lines |-> ascii_lines, first_only |-> first_only,
     term_width |-> term_width, text_wrap |-> text_wrap,
     color_support |-> color_support, theme |-> None]

\* PrinterOptions::theme as main.rs sets it from BAT_THEME or --theme
WithTheme(opts, name) == [opts EXCEPT !.theme = Some(name)]

\* a Drawer whose Canvas writes 24-bit colours whatever the terminal supports
Drawer_new_always_true_color(opts, theme, chunks) ==
    LET last_lnum == IF chunks = <<>> THEN 0 ELSE chunks[Len(chunks)][2]
        digits == num_digits(last_lnum)
    IN
    [theme |-> theme,
     grid |-> opts.grid,
     term_width |-> opts.term_width,
     lnum_width |-> IF Len(chunks) > 1 THEN Max(digits, 3) ELSE digits,
     background |-> opts.background_color,
     gutter_color |-> IF IsSome(theme.gutter_foreground)
                      THEN Unwrap(theme.gutter_foreground)
                      ELSE Color(128, 128, 128, 255),
     first_only |-> opts.first_only,
     chars |-> IF opts.ascii_lines THEN ASCII_LINE_CHARS ELSE UNICODE_LINE_CHARS,
     lines |-> <<>>,
     canvas |-> NewCanvas(theme, TRUE, opts.tab_width,
                          opts.background_color, opts.text_wrap = "Char")]

\* lines is the record of the calls of draw_line on the Drawer: the line
\* number and the Option<Region> of each
Drawer_new(opts, theme, chunks) ==
    LET last_lnum == IF chunks = <<>> THEN 0 ELSE chunks[Len(chunks)][2]
        digits == num_digits(last_lnum)
    IN
    [theme |-> theme,
     grid |-> opts.grid,
     term_width |-> opts.term_width,
     lnum_width |-> IF Len(chunks) > 1 THEN Max(digits, 3) ELSE digits,
     background |-> opts.background_color,
     gutter_color |-> IF IsSome(theme.gutter_foreground)
                      THEN Unwrap(theme.gutter_foreground)
                      ELSE Color(128, 128, 128, 255),
     first_only |-> opts.first_only,
     chars |-> IF opts.ascii_lines THEN ASCII_LINE_CHARS ELSE UNICODE_LINE_CHARS,
     lines |-> <<>>,
     canvas |-> NewCanvas(theme, opts.color_support = "True", opts.tab_width,
                          opts.background_color, opts.text_wrap = "Char")]

gutter_width(dr) == IF dr.grid THEN dr.lnum_width + 4 ELSE dr.lnum_width + 2

OnCanvas(dr, cv) == [dr EXCEPT !.canvas = cv]

draw_horizontal_line(dr, sep) ==
    LET cv1 == set_default_bg(set_fg(dr.canvas, dr.gutter_color))
        cv2 == Write(cv1, <<Rep(gutter_width(dr) - 2, dr.chars.horizontal),
                            Lit(sep),
                            Rep(U16(U16(dr.term_width - gutter_width(dr)) + 1),
                                dr.chars.horizontal)>>)
    IN  OnCanvas(dr, draw_newline(cv2))

draw_line_number(dr, lnum, matched) ==
    LET fg == IF matched THEN Unwrap(dr.theme.foreground) ELSE dr.gutter_color
        cv1 == set_default_bg(set_fg(dr.canvas, fg))
        cv2 == draw_spaces(cv1, U16(dr.lnum_width - num_digits(lnum)), "gutter")
        cv3 == Write(cv2, <<Lit(" "), Num(lnum)>>)
        cv4 == IF dr.grid
               THEN Write(IF matched THEN set_fg(cv3, dr.gutter_color) ELSE cv3,
                          <<Lit(" "), Lit(dr.chars.vertical)>>)
               ELSE cv3
    IN  OnCanvas(dr, Write(set_default_bg(cv4), <<Lit(" ")>>))

\* a gutter of a wrapped row that is one column short
draw_wrapping_gutter_one_short(dr) ==
    LET cv1 == set_default_bg(set_fg(dr.canvas, dr.gutter_color))
        cv2 == draw_spaces(cv1, dr.lnum_width + 1, "gutter")
    IN  OnCanvas(dr, IF dr.grid
                     THEN Write(cv2, <<Lit(dr.chars.vertical), Lit(" ")>>)
                     ELSE cv2)

draw_wrapping_gutter(dr) ==
    LET cv1 == set_default_bg(set_fg(dr.canvas, dr.gutter_color))
        cv2 == draw_spaces(cv1, dr.lnum_width + 2, "gutter")
    IN  OnCanvas(dr, IF dr.grid
                     THEN Write(cv2, <<Lit(dr.chars.vertical), Lit(" ")>>)
                     ELSE cv2)

draw_separator_line(dr) ==
    LET cv1 == set_default_bg(set_fg(dr.canvas, dr.gutter_color))
        left_margin == U16(dr.lnum_width + 1 - 3)
        cv2 == draw_spaces(cv1, left_margin, "gutter")
        cv3 == IF dr.grid
               THEN Write(cv2, <<Lit("... "), Lit(dr.chars.vertical_and_right)>>)
               ELSE Write(cv2, <<Lit("...")>>)
        w == IF dr.grid THEN 5 ELSE 3
        body_width == U16(U16(dr.term_width - left_margin) - w)
        cv4 == Write(set_default_bg(cv3), <<Rep(body_width, dr.chars.dashed_horizontal)>>)
    IN  OnCanvas(dr, draw_newline(cv4))

\* draw_line up to its loop: the last token chomped, the line number drawn
draw_line_begin(dr, tokens, lnum, region) ==
    [dr |-> draw_line_number(dr, lnum, IsSome(region)),
     tokens |-> IF tokens = <<>> THEN tokens
                ELSE [tokens EXCEPT ![Len(tokens)] = chomp(@)],
     region |-> region,
     body_width |-> U16(dr.term_width - gutter_width(dr)),
     rows |-> 0,
     done |-> FALSE]

\* One turn of the loop of draw_line: a visual row is drawn; after a wrap
\* break the region slides, the row ends and the gutter of the next row is
\* drawn, otherwise the line ends.
draw_line_row(st) ==
    LET r == draw(st.dr.canvas, st.tokens, st.region, st.body_width) IN
    IF IsSome(r.wrapping)
    THEN LET w == Unwrap(r.wrapping) IN
         [st EXCEPT
            !.dr = draw_wrapping_gutter(OnCanvas(st.dr, draw_newline(r.cv))),
            !.region = IF IsSome(st.region)
                       THEN Some(slide_region(w, Unwrap(st.region)))
                       ELSE None,
            !.tokens = eat_written_tokens(w, st.tokens),
            !.rows = @ + 1]
    ELSE [st EXCEPT !.dr = OnCanvas(st.dr, draw_newline(r.cv)),
                    !.rows = @ + 1,
                    !.done = TRUE]

(***************************************************************************)
(* Drawer: whole lines, header, body and footer                            *)
(***************************************************************************)
\* the most visual rows the loop of draw_line is followed for
MaxRows == 4

RECURSIVE draw_line_rows(_)
draw_line_rows(st) ==
    IF st.done \/ st.rows >= MaxRows THEN st
    ELSE draw_line_rows(draw_line_row(st))

draw_line(dr, tokens, lnum, region) ==
    draw_line_rows(
        draw_line_begin([dr EXCEPT !.lines = Append(@, [lnum |-> lnum, region |-> region])],
                        tokens, lnum, region)).dr

\* chunk::File and chunk::LineMatch
LineMatch(line_number, range) == [line_number |-> line_number, range |-> range]
File(path, contents, chunks, line_matches) ==
    [path |-> path, contents |-> contents, chunks |-> chunks,
     line_matches |-> line_matches]

\* The loop of draw_body.  ci is the chunk the loop is at.  The lines are
\* sequences of characters: the contents are taken to be valid UTF-8, which
\* from_utf8_lossy leaves alone.  The loop gives the Drawer and the
\* highlighter as they are when it is left.
RECURSIVE draw_body_from(_, _, _, _, _, _)

\* a loop that goes on to the next chunk with first_only as well
draw_body_drawn_all_chunks(dr, file, hl, it, matched, ci, lnum) ==
    IF lnum = file.chunks[ci][2]
    THEN IF ci < Len(file.chunks)
         THEN draw_body_from(draw_separator_line(dr), file, hl, it, matched, ci + 1)
         ELSE [dr |-> dr, hl |-> hl]
    ELSE draw_body_from(dr, file, hl, it, matched, ci)

\* a loop that draws a separator line behind the last chunk as well
draw_body_drawn_separator_at_end(dr, file, hl, it, matched, ci, lnum) ==
    IF lnum = file.chunks[ci][2]
    THEN IF dr.first_only THEN [dr |-> dr, hl |-> hl]
         ELSE IF ci < Len(file.chunks)
         THEN draw_body_from(draw_separator_line(dr), file, hl, it, matched, ci + 1)
         ELSE [dr |-> draw_separator_line(dr), hl |-> hl]
    ELSE draw_body_from(dr, file, hl, it, matched, ci)

\* after a line of the chunk has been drawn: the end of the chunk
draw_body_drawn(dr, file, hl, it, matched, ci, lnum) ==
    IF lnum = file.chunks[ci][2]
    THEN IF dr.first_only THEN [dr |-> dr, hl |-> hl]
         ELSE IF ci < Len(file.chunks)
         THEN draw_body_from(draw_separator_line(dr), file, hl, it, matched, ci + 1)
         ELSE [dr |-> dr, hl |-> hl]
    ELSE draw_body_from(dr, file, hl, it, matched, ci)

\* a line of the chunk: h is what the highlighter gives for it
draw_body_line(dr, file, h, it, matched, ci, lnum) ==
    LET hit == IF matched = <<>> THEN FALSE
               ELSE Head(matched).line_number = lnum
    IN  draw_body_drawn(
            draw_line(dr, h.tokens, lnum,
                      IF hit THEN Some(Region(Head(matched).range)) ELSE None),
            file, h.hl, it, IF hit THEN Tail(matched) ELSE matched, ci, lnum)

\* a loop that leaves the lines before a chunk unparsed
draw_body_turn_without_skip(dr, file, hl, nx, matched, ci) ==
    IF ~IsSome(nx.item) THEN [dr |-> dr, hl |-> hl]
    ELSE
      LET bytes == Unwrap(nx.item).bytes
          lnum == Unwrap(nx.item).lnum
      IN
      IF lnum < file.chunks[ci][1]
      THEN draw_body_from(dr, file, hl, nx.it, matched, ci)
      ELSE IF file.chunks[ci][1] <= lnum /\ lnum <= file.chunks[ci][2]
      THEN draw_body_line(dr, file, highlight(hl, bytes), nx.it, matched, ci, lnum)
      ELSE draw_body_from(dr, file, hl, nx.it, matched, ci)

\* one turn of the loop: nx is what the iterator over the lines gives
draw_body_turn(dr, file, hl, nx, matched, ci) ==
    IF ~IsSome(nx.item) THEN [dr |-> dr, hl |-> hl]
    ELSE
      LET bytes == Unwrap(nx.item).bytes
          lnum == Unwrap(nx.item).lnum
      IN
      IF lnum < file.chunks[ci][1]
      THEN draw_body_from(dr, file, skip_line(hl, bytes), nx.it, matched, ci)
      ELSE IF file.chunks[ci][1] <= lnum /\ lnum <= file.chunks[ci][2]
      THEN draw_body_line(dr, file, highlight(hl, bytes), nx.it, matched, ci, lnum)
      ELSE draw_body_from(dr, file, hl, nx.it, matched, ci)

draw_body_from(dr, file, hl, it, matched, ci) ==
    draw_body_turn(dr, file, hl, LinesInclusive_next(it), matched, ci)

draw_body_loop(dr, file, hl) ==
    draw_body_from(dr, file, hl, LinesInclusive_new(file.contents),
                   file.line_matches, 1)

draw_body(dr, file, hl) == draw_body_loop(dr, file, hl).dr

\* paths are ASCII here: the width of a path is its length
draw_header(dr, path) ==
    LET dr1 == draw_horizontal_line(dr, dr.chars.horizontal)
        cv1 == Write(set_bold(set_default_bg(dr1.canvas)), <<Lit(" "), Lit(path)>>)
        cv2 == IF dr.background
               THEN fill_spaces(cv1, Len(path) + 1, dr.term_width)
               ELSE cv1
        dr2 == OnCanvas(dr1, draw_newline(cv2))
    IN  IF dr.grid
        THEN draw_horizontal_line(dr2, dr.chars.down_and_horizontal)
        ELSE dr2

\* a footer that is drawn without the grid as well
draw_footer_without_grid(dr) == draw_horizontal_line(dr, dr.chars.up_and_horizontal)

draw_footer(dr) ==
    IF dr.grid THEN draw_horizontal_line(dr, dr.chars.up_and_horizontal) ELSE dr

(***************************************************************************)
(* SyntectPrinter                                                          *)
(***************************************************************************)
\* The theme sets.  THEME_SET_BIN is bat's set, ThemeSet::load_defaults()
\* is syntect's own; "Solarized (dark)" is a name of both.
BatThemes ==
    [n \in {"Monokai Extended", "ansi", "base16", "Solarized (dark)"} |->
        CASE n = "Monokai Extended" -> ThemeRgb
          [] n = "ansi" -> ThemeAnsi
          [] n = "base16" -> ThemeBase16
          [] OTHER -> ThemeSolarizedBat]

DefaultThemes ==
    [n \in {"InspiredGitHub", "Solarized (dark)"} |->
        CASE n = "InspiredGitHub" -> ThemeGitHub
          [] OTHER -> ThemeSolarizedSyntect]

\* the PrintError of load_themes for a name of neither set
UnknownTheme(name) == <<"Unknown theme", Unwrap(name)>>

\* a load_themes that looks into syntect's set first
load_themes_defaults_first(name) ==
    IF name = None THEN [ok |-> TRUE, themes |-> BatThemes, error |-> None]
    ELSE IF Unwrap(name) \in DOMAIN DefaultThemes
    THEN [ok |-> TRUE, themes |-> DefaultThemes, error |-> None]
    ELSE IF Unwrap(name) \in DOMAIN BatThemes
    THEN [ok |-> TRUE, themes |-> BatThemes, error |-> None]
    ELSE [ok |-> FALSE, themes |-> BatThemes, error |-> UnknownTheme(name)]

\* load_themes: ok is FALSE for Err, and then themes is not read
load_themes(name) ==
    IF name = None THEN [ok |-> TRUE, themes |-> BatThemes, error |-> None]
    ELSE IF Unwrap(name) \in DOMAIN BatThemes
    THEN [ok |-> TRUE, themes |-> BatThemes, error |-> None]
    ELSE IF Unwrap(name) \in DOMAIN DefaultThemes
    THEN [ok |-> TRUE, themes |-> DefaultThemes, error |-> None]
    ELSE [ok |-> FALSE, themes |-> BatThemes, error |-> UnknownTheme(name)]

\* SyntectPrinter::new: the error of load_themes is returned by the ?, and
\* then there is no printer
SyntectPrinter_new(opts) ==
    [ok |-> load_themes(opts.theme).ok, opts |-> opts,
     themes |-> load_themes(opts.theme).themes,
     error |-> load_themes(opts.theme).error]

theme_name(opts) ==
    IF IsSome(opts.theme) THEN Unwrap(opts.theme)
    ELSE IF opts.color_support = "Ansi16" THEN "ansi"
    ELSE "Monokai Extended"

theme(pr) == pr.themes[theme_name(pr.opts)]

\* Path::extension of the paths used here
Extension(path) ==
    CASE path = "a.rs" -> "rs"
      [] path = "b.rs" -> "rs"
      [] path = "n.h" -> "h"
      [] OTHER -> ""

\* whether opening the file at path fails
Unreadable(path) == path = "gone"

\* find_syntax: "h", "fs" and "pac" are found by name; otherwise
\* SyntaxSet::find_syntax_for_file looks the extension up and, when that
\* finds nothing, opens the file to read its first line: an error of that
\* is returned by the ? operator.  Plain text is the fallback.
find_syntax(path) ==
    LET ext == Extension(path) IN
    IF ext \in {"fs", "h", "pac"} THEN [ok |-> TRUE, syntax |-> "Code"]
    ELSE IF ext = "rs" THEN [ok |-> TRUE, syntax |-> "Code"]
    ELSE IF Unreadable(path) THEN [ok |-> FALSE, syntax |-> "Plain"]
    ELSE [ok |-> TRUE, syntax |-> "Plain"]

\* The frame of one print call on a worker thread: where the call is, the
\* number of the call, its locals and what it returned.  A frame keeps what
\* the last call left in it until the next call initialises it.  "failed"
\* records that syntax lookup or a draw call of this print gave an error.
Frame(pc, id, file, syntax, drawer, failed, ret, sent) ==
    [pc |-> pc, id |-> id, file |-> file, syntax |-> syntax, drawer |-> drawer,
     failed |-> failed, ret |-> ret, sent |-> sent]

\* a print that initialises its Drawer only on the first call of its thread
print_begin_reusing_drawer(wk, file, pr, id) ==
    IF file.chunks = <<>> \/ file.line_matches = <<>>
    THEN Frame("idle", id, file, wk.syntax, wk.drawer, FALSE, "ok", 0)
    ELSE LET found == find_syntax(file.path) IN
         IF ~found.ok
         THEN Frame("idle", id, file, wk.syntax, wk.drawer, TRUE, "err", 0)
         ELSE Frame("header", id, file, found.syntax,
                    IF IsSome(wk.drawer)
                    THEN Some([Unwrap(wk.drawer) EXCEPT !.canvas.out = <<>>])
                    ELSE Some(Drawer_new(pr.opts, theme(pr), file.chunks)),
                    FALSE, "none", 0)

\* a print that returns early for a file without chunks only
print_begin_matches_unchecked(wk, file, pr, id) ==
    IF file.chunks = <<>>
    THEN Frame("idle", id, file, wk.syntax, wk.drawer, FALSE, "ok", 0)
    ELSE LET found == find_syntax(file.path) IN
         IF ~found.ok
         THEN Frame("idle", id, file, wk.syntax, wk.drawer, TRUE, "err", 0)
         ELSE Frame("header", id, file, found.syntax,
                    Some(Drawer_new(pr.opts, theme(pr), file.chunks)),
                    FALSE, "none", 0)

\* print up to Drawer::new: the early return, the empty buffer, the theme,
\* the syntax and the Drawer with its Canvas on the buffer
print_begin(wk, file, pr, id) ==
    IF file.chunks = <<>> \/ file.line_matches = <<>>
    THEN Frame("idle", id, file, wk.syntax, wk.drawer, FALSE, "ok", 0)
    ELSE LET found == find_syntax(file.path) IN
         IF ~found.ok
         THEN Frame("idle", id, file, wk.syntax, wk.drawer, TRUE, "err", 0)
         ELSE Frame("header", id, file, found.syntax,
                    Some(Drawer_new(pr.opts, theme(pr), file.chunks)),
                    FALSE, "none", 0)

\* a draw call whose error is dropped
draw_result_unchecked(wk, dr, failed, next) ==
    [wk EXCEPT !.pc = next, !.drawer = Some(dr), !.failed = @ \/ failed]

\* The ? after draw_header, draw_body and draw_footer: an error is returned
\* from print at once, otherwise print goes on at next.
draw_result(wk, dr, failed, next) ==
    IF failed
    THEN [wk EXCEPT !.pc = "idle", !.drawer = Some(dr), !.failed = TRUE,
                    !.ret = "err"]
    ELSE [wk EXCEPT !.pc = next, !.drawer = Some(dr)]

\* what a draw call that fails has written: the first half of its output
cut_short(before, after) ==
    [after EXCEPT !.canvas.out =
        SubSeq(@, 1, Len(before.canvas.out)
                     + (Len(@) - Len(before.canvas.out)) \div 2)]

\* the buffer of the print: what the Canvas of its Drawer has written
buf_of(wk) == Unwrap(wk.drawer).canvas.out

\* a guard that outlives the print that took the lock
guard_kept(holder) == holder

\* the MutexGuard of the writer is dropped when print returns, with Ok or
\* with the error of write_all or flush: the lock is free again
guard_dropped(holder) == None

\* a lock that is given to whoever asks
lock_given_to_all(holder) == TRUE

\* self.writer.lock() returns when no other thread holds the lock
lock_is_free(holder) == holder = None

(***************************************************************************)
(* SpecCanvas: any sequence of set_fg, set_bg and draw_newline calls on    *)
(* one Canvas                                                              *)
(***************************************************************************)
MaxCalls == 3

CallColors == {Grey, Pink, Ansi7, Ansi8, PassThrough}

Call(op, c, before, after) ==
    [op |-> op, c |-> c,
     hit |-> IF op = "set_fg" THEN before.current_fg = Some(c)
             ELSE IF op = "set_bg" THEN before.current_bg = Some(c)
             ELSE FALSE,
     wrote |-> SubSeq(after.out, Len(before.out) + 1, Len(after.out))]

InitCanvas ==
    /\ \E tc \in BOOLEAN : canvas = NewCanvas(ThemeRgb, tc, 4, TRUE, TRUE)
    /\ calls = <<>>
    /\ lineIn = None
    /\ lineRun = None
    /\ printer = None /\ files = <<>> /\ workers = None
    /\ writer = <<>> /\ lock = None /\ prints = <<>> /\ status = None

CallSetFg ==
    \E c \in CallColors :
        /\ Len(calls) < MaxCalls
        /\ canvas' = set_fg(canvas, c)
        /\ calls' = Append(calls, Call("set_fg", c, canvas, canvas'))
        /\ UNCHANGED <<status, lineIn, lineRun, printer, files, workers, writer, lock, prints>>

CallSetBg ==
    \E c \in CallColors :
        /\ Len(calls) < MaxCalls
        /\ canvas' = set_bg(canvas, c)
        /\ calls' = Append(calls, Call("set_bg", c, canvas, canvas'))
        /\ UNCHANGED <<status, lineIn, lineRun, printer, files, workers, writer, lock, prints>>

CallDrawNewline ==
    /\ Len(calls) < MaxCalls
    /\ canvas' = draw_newline(canvas)
    /\ calls' = Append(calls, Call("draw_newline", Grey, canvas, canvas'))
    /\ UNCHANGED <<status, lineIn, lineRun, printer, files, workers, writer, lock, prints>>

NextCanvas == CallSetFg \/ CallSetBg \/ CallDrawNewline

SpecCanvas == InitCanvas /\ [][NextCanvas]_vars

(***************************************************************************)
(* SpecLine: Drawer::draw_line on one line, for every token sequence,      *)
(* region and option of the bounded sets below.  The loop of draw_line     *)
(* takes one step per visual row.                                          *)
(***************************************************************************)
MaxLineLen == 3

LineAlphabet == {"a", "W", "TAB", "ZWJ"}
LineTexts == UNION {[1..n -> LineAlphabet] : n \in 0..MaxLineLen}
LineTabWidths == {0, 2}
\* two chunks: the gutter has three columns for the line number and, with
\* term_width 10 and a grid, the body is 3 columns wide
LineChunks == {<<<<1, 1>>, <<7, 9>>>>}

StyleA == Style(Pink, Dark, {})
StyleB == Style(Ansi7, Dark, {"bold"})
\* (style of the first token, style of the second)
LineStylePairs == {<<StyleA, StyleA>>, <<StyleA, StyleB>>, <<StyleB, StyleB>>}

\* The line as the highlighter hands it over: one token, or two tokens cut
\* after the cut-th character; the last token ends with the line feed.
LineTokens(text, cut, styles) ==
    IF cut = 0 \/ cut >= Len(text)
    THEN <<Token(styles[2], text \o <<"LF">>)>>
    ELSE <<Token(styles[1], SubSeq(text, 1, cut)),
           Token(styles[2], Suffix(text, cut + 1) \o <<"LF">>)>>

\* the byte offsets of the character boundaries of text
CharOffsets(text) == {StrLen(SubSeq(text, 1, n)) : n \in 0..Len(text)}

\* no match, a match without range, a match with a range of the line
LineRegions(text) ==
    {None, Some(Region(None))}
    \cup {Some(Region(Some(<<s, e>>))) :
            <<s, e>> \in {p \in CharOffsets(text) \X CharOffsets(text) : p[1] < p[2]}}

InitLine ==
    /\ canvas = None
    /\ calls = <<>>
    /\ printer = None /\ files = <<>> /\ workers = None
    /\ writer = <<>> /\ lock = None /\ prints = <<>> /\ status = None
    /\ \E text \in LineTexts, wrap \in {"Char", "Never"}, tw \in LineTabWidths,
          bg \in BOOLEAN, chunks \in LineChunks, styles \in LineStylePairs :
        \E cut \in 0..(IF Len(text) > 1 THEN Len(text) - 1 ELSE 0),
           region \in LineRegions(text) :
          /\ cut = 0 => styles[1] = styles[2]
          /\ lineIn = [tokens |-> LineTokens(text, cut, styles),
                       text |-> text,
                       region |-> region,
                       lnum |-> chunks[Len(chunks)][1],
                       dr |-> Drawer_new(
                           Opts(tw, TRUE, bg, FALSE, FALSE, 10, wrap, "True"),
                           ThemeRgb, chunks)]
          /\ lineRun = [pc |-> "begin"]

DrawLineBegin ==
    /\ lineRun.pc = "begin"
    /\ lineRun' = [pc |-> "rows",
                st |-> draw_line_begin(lineIn.dr, lineIn.tokens, lineIn.lnum,
                                       lineIn.region)]
    /\ UNCHANGED <<status, canvas, calls, lineIn, printer, files, workers, writer, lock, prints>>

DrawLineRow ==
    /\ lineRun.pc = "rows"
    /\ lineRun.st.rows < MaxRows
    /\ LET st == draw_line_row(lineRun.st)
       IN  lineRun' = [pc |-> IF st.done THEN "done" ELSE "rows", st |-> st]
    /\ UNCHANGED <<status, canvas, calls, lineIn, printer, files, workers, writer, lock, prints>>

NextLine == DrawLineBegin \/ DrawLineRow

SpecLine == InitLine /\ [][NextLine]_vars

(***************************************************************************)
(* SpecDrawer: the header, a separator line, the footer and one line       *)
(* drawn by Drawers of every gutter width: the last line number of the     *)
(* chunks has up to eight digits, the terminal has 10 columns              *)
(***************************************************************************)
DrawerChunks ==
    {<<<<1, 1>>>>, <<<<1, 1>>, <<7, 9>>>>} \cup
    {<<<<1, 1>>, <<n, n>>>> : n \in {10000, 100000, 1000000, 10000000}}

DrawerTexts == UNION {[1..n -> {"a", "W", "TAB"}] : n \in 0..MaxLineLen}

InitDrawer ==
    /\ canvas = None
    /\ calls = <<>>
    /\ printer = None /\ files = <<>> /\ workers = None
    /\ writer = <<>> /\ lock = None /\ prints = <<>> /\ status = None
    /\ \E text \in DrawerTexts, grid \in BOOLEAN, chunks \in DrawerChunks,
          region \in {None, Some(Region(None))} :
        \E cut \in 0..(IF Len(text) > 1 THEN Len(text) - 1 ELSE 0) :
          /\ lineIn = [tokens |-> LineTokens(text, cut, <<StyleA, StyleB>>),
                       text |-> text,
                       region |-> region,
                       lnum |-> chunks[Len(chunks)][1],
                       chunks |-> chunks,
                       dr |-> Drawer_new(
                           Opts(2, grid, FALSE, FALSE, FALSE, 10, "Char", "True"),
                           ThemeRgb, chunks)]
          /\ lineRun = [pc |-> "begin"]

DrawerPath == "a.rs"

DrawHeader ==
    /\ lineRun.pc = "begin"
    /\ lineRun' = [pc |-> "header", st |-> [dr |-> draw_header(lineIn.dr, DrawerPath)]]
    /\ UNCHANGED <<status, canvas, calls, lineIn, printer, files, workers, writer, lock, prints>>

\* the separator line that draw_body draws between two chunks
DrawSeparatorLine ==
    /\ lineRun.pc = "header"
    /\ Len(lineIn.chunks) > 1
    /\ lineRun' = [pc |-> "separator",
                   st |-> [dr |-> draw_separator_line(lineRun.st.dr)]]
    /\ UNCHANGED <<status, canvas, calls, lineIn, printer, files, workers, writer, lock, prints>>

DrawFooter ==
    /\ lineRun.pc \in {"header", "separator"}
    /\ lineRun' = [pc |-> "footer", st |-> [dr |-> draw_footer(lineRun.st.dr)]]
    /\ UNCHANGED <<status, canvas, calls, lineIn, printer, files, workers, writer, lock, prints>>

NextDrawer == DrawLineBegin \/ DrawLineRow \/ DrawHeader \/ DrawSeparatorLine \/ DrawFooter

SpecDrawer == InitDrawer /\ [][NextDrawer]_vars

(***************************************************************************)
(* Spec: the stdin driver of main.rs.  The files that come out of          *)
(* chunks_per_file are handed by par_bridge to the worker threads, which   *)
(* call print on the one SyntectPrinter.                                   *)
(***************************************************************************)
\* the most files that arrive
MaxFiles == 3

Workers == {"w1", "w2"}

FileA ==
    File("a.rs", <<"a", "b", "LF", "W", "b", "a", "LF">>, <<<<1, 2>>>>,
         <<LineMatch(1, Some(<<0, 1>>))>>)
FileB ==
    File("b.rs", <<"b", "LF", "a", "LF", "a", "TAB", "b", "LF", "a">>,
         <<<<1, 1>>, <<3, 4>>>>,
         <<LineMatch(1, None), LineMatch(3, None)>>)
FileGone == File("gone", <<"a", "LF">>, <<<<1, 1>>>>, <<LineMatch(1, None)>>)
FileNoMatch == File("n.h", <<"a", "LF">>, <<<<1, 1>>>>, <<>>)

\* an item of the iterator: Ok(file) or Err
Arrivals ==
    {[ok |-> TRUE, file |-> f] : f \in {FileA, FileB, FileGone, FileNoMatch}}
    \cup {[ok |-> FALSE, file |-> FileNoMatch]}

IdleFrame == Frame("idle", 0, FileNoMatch, "Plain", None, FALSE, "none", 0)

\* the record of a call in prints
Logged(wk) ==
    [file |-> wk.file,
     state |-> IF wk.pc = "idle" THEN wk.ret ELSE "running",
     failed |-> wk.failed]

\* The frame after a step of print: when print has returned its locals are
\* gone, but for the Drawer, which the frame keeps with its buffer freed
\* until the next call puts its own in its place.
Settled(wk) ==
    IF wk.pc = "idle"
    THEN [IdleFrame EXCEPT !.drawer =
            IF IsSome(wk.drawer)
            THEN Some([Unwrap(wk.drawer) EXCEPT !.canvas.out = <<>>])
            ELSE None]
    ELSE wk

Init ==
    /\ canvas = None /\ calls = <<>> /\ lineIn = None /\ lineRun = None
    /\ printer = SyntectPrinter_new(Opts(2, TRUE, FALSE, FALSE, FALSE, 10, "Char", "True"))
    /\ files \in UNION {[1..n -> Arrivals] : n \in 0..MaxFiles}
    /\ workers = [w \in Workers |-> IdleFrame]
    /\ writer = <<>>
    /\ lock = None
    /\ prints = <<>>
    /\ status = None

\* A worker takes the next item: an Err item ends the closure at "file?",
\* an Ok item is printed.  try_reduce hands out no further item once a
\* closure has returned Err; the calls that are under way go on.
Take(w) ==
    /\ printer.ok
    /\ workers[w].pc = "idle"
    /\ files # <<>>
    /\ \A p \in 1..Len(prints) : prints[p].state # "err"
    /\ files' = Tail(files)
    /\ LET id == Len(prints) + 1
           wk == IF Head(files).ok
                 THEN print_begin(workers[w], Head(files).file, printer, id)
                 ELSE [workers[w] EXCEPT !.id = id, !.file = Head(files).file,
                                         !.failed = FALSE, !.ret = "err"]
       IN  /\ workers' = [workers EXCEPT ![w] = Settled(wk)]
           /\ prints' = Append(prints, Logged(wk))
    /\ UNCHANGED <<status, canvas, calls, lineIn, lineRun, printer, writer, lock>>

\* One draw call of print on the Drawer of the frame, which succeeds or
\* returns an error of the Write below the Canvas.
DrawStep(w, after, next) ==
    \E failed \in BOOLEAN :
        LET before == Unwrap(workers[w].drawer)
            wk == draw_result(workers[w],
                              IF failed THEN cut_short(before, after) ELSE after,
                              failed, next)
        IN  /\ workers' = [workers EXCEPT ![w] = Settled(wk)]
            /\ prints' = [prints EXCEPT ![wk.id] = Logged(wk)]
            /\ UNCHANGED <<status, canvas, calls, lineIn, lineRun, printer, files, writer, lock>>

Header(w) ==
    /\ workers[w].pc = "header"
    /\ DrawStep(w, draw_header(Unwrap(workers[w].drawer), workers[w].file.path),
                "body")

Body(w) ==
    /\ workers[w].pc = "body"
    /\ DrawStep(w, draw_body(Unwrap(workers[w].drawer), workers[w].file,
                             LineHighlighter_new(workers[w].syntax,
                                                 theme(printer))),
                "footer")

Footer(w) ==
    /\ workers[w].pc = "footer"
    /\ DrawStep(w, draw_footer(Unwrap(workers[w].drawer)), "lock")

Lock(w) ==
    /\ workers[w].pc = "lock"
    /\ lock_is_free(lock)
    /\ lock' = Some(w)
    /\ workers' = [workers EXCEPT ![w].pc = "write"]
    /\ UNCHANGED <<status, canvas, calls, lineIn, lineRun, printer, files, writer, prints>>

\* write_all hands the buffer to the writer in one piece or in two, or
\* fails; the guard of the lock is dropped when print returns.
WriteAll(w) ==
    /\ workers[w].pc = "write"
    /\ LET wk == workers[w]
           left == Len(buf_of(wk)) - wk.sent
       IN  \/ \E n \in {left, (left + 1) \div 2} :
                /\ writer' = writer \o
                     [i \in 1..n |-> [id |-> wk.id, item |-> buf_of(wk)[wk.sent + i]]]
                /\ workers' = [workers EXCEPT
                                 ![w].sent = @ + n,
                                 ![w].pc = IF n = left THEN "flush" ELSE "write"]
                /\ UNCHANGED <<lock, prints>>
           \/ /\ workers' = [workers EXCEPT ![w] = Settled([wk EXCEPT !.pc = "idle"])]
              /\ prints' = [prints EXCEPT ![wk.id] =
                                Logged([wk EXCEPT !.pc = "idle", !.ret = "err"])]
              /\ lock' = guard_dropped(lock)
              /\ UNCHANGED writer
    /\ UNCHANGED <<status, canvas, calls, lineIn, lineRun, printer, files>>

Flush(w) ==
    /\ workers[w].pc = "flush"
    /\ \E r \in {"ok", "err"} :
        /\ workers' = [workers EXCEPT ![w] = Settled([@ EXCEPT !.pc = "idle"])]
        /\ prints' = [prints EXCEPT ![workers[w].id] =
                          Logged([workers[w] EXCEPT !.pc = "idle", !.ret = r])]
    /\ lock' = guard_dropped(lock)
    /\ UNCHANGED <<status, canvas, calls, lineIn, lineRun, printer, files, writer>>

\* what app returns: the error of SyntectPrinter::with_stdout or of a
\* closure, else the try_reduce of the Ok(true) of every closure with ||
\* over the identity false
app(pr, done) ==
    IF ~pr.ok \/ \E p \in 1..Len(done) : done[p].state = "err" THEN "Err"
    ELSE IF \E p \in 1..Len(done) : done[p].state = "ok" THEN "Ok(true)"
    ELSE "Ok(false)"

\* a main that leaves with the status of success whatever app returned
main_status_always_zero(result) == 0

\* the status main hands to process::exit
main_status(result) ==
    CASE result = "Ok(true)" -> 0
      [] result = "Ok(false)" -> 1
      [] OTHER -> 2

\* main leaves: the printer could not be made, or try_reduce has come to
\* its end or to an error and no closure is running any more
Exit ==
    /\ status = None
    /\ \A w \in Workers : workers[w].pc = "idle"
    /\ \/ ~printer.ok
       \/ files = <<>>
       \/ \E p \in 1..Len(prints) : prints[p].state = "err"
    /\ status' = Some(main_status(app(printer, prints)))
    /\ UNCHANGED <<canvas, calls, lineIn, lineRun, printer, files, workers, writer,
                   lock, prints>>

Next ==
    \/ \E w \in Workers :
        \/ Take(w)
        \/ Header(w)
        \/ Body(w)
        \/ Footer(w)
        \/ Lock(w)
        \/ WriteAll(w)
        \/ Flush(w)
    \/ Exit

Spec == Init /\ [][Next]_vars

(***************************************************************************)
(* SpecLines: LinesInclusive over one buffer, as a for loop runs it: one   *)
(* call of next per step, until next gives None                            *)
(***************************************************************************)
MaxBufLen == 4

LinesBufs == UNION {[1..n -> {"a", "CR", "LF"}] : n \in 0..MaxBufLen}

InitLines ==
    /\ canvas = None /\ calls = <<>>
    /\ printer = None /\ files = <<>> /\ workers = None
    /\ writer = <<>> /\ lock = None /\ prints = <<>> /\ status = None
    /\ \E buf \in LinesBufs :
        /\ lineIn = [buf |-> buf]
        /\ lineRun = [it |-> LinesInclusive_new(buf), lines |-> <<>>, done |-> FALSE]

LinesNext ==
    /\ ~lineRun.done
    /\ LET r == LinesInclusive_next(lineRun.it) IN
        lineRun' = [it |-> r.it,
                    lines |-> IF IsSome(r.item)
                              THEN Append(lineRun.lines, Unwrap(r.item))
                              ELSE lineRun.lines,
                    done |-> ~IsSome(r.item)]
    /\ UNCHANGED <<canvas, calls, lineIn, printer, files, workers, writer, lock,
                   prints, status>>

NextLines == LinesNext

SpecLines == InitLines /\ [][NextLines]_vars

(***************************************************************************)
(* SpecFair: the files of Spec with threads that go on at the writer: a    *)
(* thread that waits for the lock gets it once the lock stays free, and a  *)
(* thread that holds the lock goes on to write, to flush and to return     *)
(***************************************************************************)
MaxFairFiles == 2

InitFair ==
    /\ canvas = None /\ calls = <<>> /\ lineIn = None /\ lineRun = None
    /\ printer = SyntectPrinter_new(Opts(2, TRUE, FALSE, FALSE, FALSE, 10, "Char", "True"))
    /\ files \in UNION {[1..n -> Arrivals] : n \in 0..MaxFairFiles}
    /\ workers = [w \in Workers |-> IdleFrame]
    /\ writer = <<>>
    /\ lock = None
    /\ prints = <<>>
    /\ status = None

SpecFair ==
    /\ InitFair
    /\ [][Next]_vars
    /\ \A w \in Workers : WF_vars(Lock(w)) /\ WF_vars(WriteAll(w)) /\ WF_vars(Flush(w))

(***************************************************************************)
(* SpecPrint: one file printed by a printer made from any of the options   *)
(***************************************************************************)
ThemeNames ==
    {None, Some("Monokai Extended"), Some("base16"), Some("Solarized (dark)"),
     Some("InspiredGitHub"), Some("nope")}

\* three chunks, a match in each
FileC ==
    File("a.rs", <<"a", "LF", "LF", "b", "LF", "LF", "a", "b", "LF">>,
         <<<<1, 1>>, <<3, 3>>, <<5, 5>>>>,
         <<LineMatch(1, None), LineMatch(3, Some(<<0, 1>>)), LineMatch(5, None)>>)

\* a chunk that begins behind a line that opens a block
FileD ==
    File("a.rs", <<"b", "LF", "a", "b", "LF", "a", "LF">>, <<<<2, 2>>>>,
         <<LineMatch(2, None)>>)

\* two matches with one line number, and a match behind them; the second
\* line is 8 columns wide
FileDup ==
    File("a.rs", <<"a", "LF", "W", "W", "W", "W", "LF", "a", "LF">>, <<<<1, 3>>>>,
         <<LineMatch(1, None), LineMatch(1, Some(<<0, 1>>)), LineMatch(3, None)>>)

\* a file without chunks
FileNoChunk == File("a.rs", <<"a", "LF">>, <<>>, <<LineMatch(1, None)>>)

PrintFiles ==
    {FileA, FileB, FileC, FileD, FileDup, FileGone, FileNoMatch, FileNoChunk}

InitPrint ==
    /\ canvas = None /\ calls = <<>> /\ lineIn = None /\ lineRun = None
    /\ \E grid \in BOOLEAN, bg \in BOOLEAN, first_only \in BOOLEAN,
          cs \in {"Ansi16", "Ansi256", "True"}, name \in ThemeNames :
        LET opts == Opts(2, grid, bg, FALSE, first_only, 10, "Char", cs)
        IN  printer = SyntectPrinter_new(
                          IF name = None THEN opts ELSE WithTheme(opts, Unwrap(name)))
    /\ \E f \in PrintFiles : files = <<[ok |-> TRUE, file |-> f]>>
    /\ workers = [w \in Workers |-> IdleFrame]
    /\ writer = <<>>
    /\ lock = None
    /\ prints = <<>>
    /\ status = None

SpecPrint == InitPrint /\ [][Next]_vars

(***************************************************************************)
(* Reading the output back: rows, columns, text items                      *)
(***************************************************************************)
RECURSIVE SumSeq(_)
SumSeq(s) == IF s = <<>> THEN 0 ELSE Head(s) + SumSeq(Tail(s))

\* the indices of the line feeds in out
LfAt(out) == {i \in 1..Len(out) : out[i].k = "nl"}

\* the rows that are ended by a line feed, each as <<first, last>> index
RowSpans(out) ==
    {<<IF \E j \in LfAt(out) : j < i
       THEN 1 + CHOOSE j \in LfAt(out) : j < i /\ \A h \in LfAt(out) : h < i => h <= j
       ELSE 1, i>> : i \in LfAt(out)}

IsTextItem(it) == it.k = "ch" \/ (it.k = "sp" /\ it.c = "tab")
IsPadItem(it) == it.k = "sp" /\ it.c \in {"pad", "fill"}

\* the columns the Canvas counted for the text of a row, and its padding
RowText(out, span) ==
    SumSeq([i \in 1..(span[2] - span[1] + 1) |->
               LET it == out[span[1] + i - 1]
               IN  IF IsTextItem(it) THEN it.p[1] ELSE 0])
RowPad(out, span) ==
    SumSeq([i \in 1..(span[2] - span[1] + 1) |->
               LET it == out[span[1] + i - 1]
               IN  IF IsPadItem(it) THEN it.p[1] ELSE 0])

LineOut == lineRun.st.dr.canvas.out
LineStarted == lineRun.pc \in {"rows", "done"}
LineDone == lineRun.pc = "done"
LineWrap == lineIn.dr.canvas.wrap
LinePainted == lineIn.dr.background \/ IsSome(lineIn.region)
LineBody == lineRun.st.body_width
\* the last row of a line that has been drawn to its end
IsLastRow(span) == LineDone /\ span[2] = Len(LineOut)

(***************************************************************************)
(* Claims                                                                  *)
(***************************************************************************)

\* the colour calls between the i-th and the j-th call that touch the memo
\* of the i-th call: a draw_newline or a call of the same setter
MemoTouched(i, j) ==
    \E h \in (i + 1)..(j - 1) : calls[h].op \in {"draw_newline", calls[i].op}

SgrCount(items) == Cardinality({i \in 1..Len(items) : items[i].k = "sgr"})

\* C7: set_fg(c) followed by another set_fg(c) with no newline in between
\* writes one SGR sequence at most, and the second call writes nothing; the
\* same for set_bg.
C7_SecondSetWritesNothing ==
    \A i, j \in 1..Len(calls) :
        (/\ i < j
         /\ calls[i].op \in {"set_fg", "set_bg"}
         /\ calls[j].op = calls[i].op
         /\ calls[j].c = calls[i].c
         /\ ~MemoTouched(i, j))
        => /\ calls[j].wrote = <<>>
           /\ SgrCount(calls[i].wrote) + SgrCount(calls[j].wrote) <= 1

C7_Witness ==
    /\ Len(calls) = 3
    /\ calls[1].op = "set_fg" /\ calls[1].c = Grey /\ SgrCount(calls[1].wrote) = 1
    /\ calls[2].op = "set_bg"
    /\ calls[3].op = "set_fg" /\ calls[3].c = Grey /\ calls[3].wrote = <<>>

\* the escape of a colour as a fresh Canvas writes it
Escape(op, c) ==
    set_color(NewCanvas(canvas.theme, canvas.true_color, canvas.tab_width,
                        canvas.has_background, canvas.wrap),
              IF op = "set_fg" THEN 30 ELSE 40, c).out

\* C9: draw_newline writes ESC[0m and a line feed and clears both memoized
\* colours: the first set_fg and the first set_bg after it write their
\* escape again, also for the colour that was in effect before the newline.
C9_NewlineClearsMemo ==
    \A i \in 1..Len(calls) :
        calls[i].op = "draw_newline"
        => /\ calls[i].wrote = <<Sgr(<<0>>), LF>>
           /\ i = Len(calls) => canvas.current_fg = None /\ canvas.current_bg = None
           /\ \A j \in (i + 1)..Len(calls) :
                (/\ calls[j].op \in {"set_fg", "set_bg"}
                 /\ \A h \in (i + 1)..(j - 1) : calls[h].op # calls[j].op)
                => /\ ~calls[j].hit
                   /\ calls[j].wrote = Escape(calls[j].op, calls[j].c)

C9_Witness ==
    /\ Len(calls) = 3
    /\ calls[1].op = "set_bg" /\ calls[1].c = Pink
    /\ calls[2].op = "draw_newline"
    /\ calls[3].op = "set_bg" /\ calls[3].c = Pink
    /\ calls[3].wrote = calls[1].wrote /\ calls[3].wrote # <<>>

\* the escape the colour rules give for colour c: code is 30 for the
\* foreground and 40 for the background
RuleEscape(code, c, true_color) ==
    IF c.a = 1 THEN <<>>
    ELSE IF c.a = 0 /\ c.r <= 7 THEN <<Sgr(<<code + c.r>>)>>
    ELSE IF c.a = 0 /\ c.r > 7 THEN <<Sgr(<<code + 8, 5, c.r>>)>>
    ELSE IF true_color THEN <<Sgr(<<code + 8, 2, c.r, c.g, c.b>>)>>
    ELSE <<Sgr(<<code + 8, 5, rgb_to_ansi256(c.r, c.g, c.b)>>)>>

\* C10: for every colour, what set_color writes is nothing for a = 1, SGR
\* 30+r / 40+r for a = 0 and r <= 7, 38;5;r / 48;5;r for a = 0 and r > 7,
\* otherwise 38;2;r;g;b / 48;2;r;g;b with true colour and 38;5;i / 48;5;i
\* with i the 256-colour index of (r, g, b) without.
C10_SetColorRules ==
    \A i \in 1..Len(calls) :
        (calls[i].op \in {"set_fg", "set_bg"} /\ ~calls[i].hit)
        => calls[i].wrote =
             RuleEscape(IF calls[i].op = "set_fg" THEN 30 ELSE 40, calls[i].c,
                        canvas.true_color)

C10_Witness ==
    /\ Len(calls) = 3
    /\ ~canvas.true_color
    /\ calls[1].op = "set_fg" /\ calls[1].wrote = <<Sgr(<<37>>)>>
    /\ calls[2].op = "set_bg" /\ calls[2].wrote = <<Sgr(<<48, 5, 8>>)>>
    /\ calls[3].op = "set_fg" /\ calls[3].c = Pink
    /\ calls[3].wrote = <<Sgr(<<38, 5, rgb_to_ansi256(255, 0, 128)>>)>>

\* C4, as claimed: in either text_wrap mode every visual row of a match line
\* or of a line drawn with background_color is text plus padding of exactly
\* term_width - gutter_width columns, and an unmatched line without
\* background_color is not padded after its text.
C4_AsClaimed ==
    LineStarted =>
        \A span \in RowSpans(LineOut) :
            /\ LinePainted => RowText(LineOut, span) + RowPad(LineOut, span) = LineBody
            /\ (~LinePainted /\ IsLastRow(span)) => RowPad(LineOut, span) = 0

\* C4, amended: with text_wrap = Char every row ended by a wrap break is
\* filled to exactly term_width - gutter_width columns, and so is the last
\* row of a match line or of a line drawn with background_color, while the
\* last row of an unmatched line without background_color gets no padding.
\* With text_wrap = Never the one row is padded up to that width when its
\* text is narrower and is written in full when its text is wider; an
\* unmatched line without background_color is not padded.  Widths are the
\* columns the Canvas counts.
C4_RowWidth ==
    LineStarted =>
        \A span \in RowSpans(LineOut) :
            LET text == RowText(LineOut, span)
                pad == RowPad(LineOut, span)
            IN  IF LineWrap
                THEN /\ (LinePainted \/ ~IsLastRow(span)) => text + pad = LineBody
                     /\ (~LinePainted /\ IsLastRow(span)) => pad = 0
                ELSE /\ IsLastRow(span)
                     /\ LinePainted => pad = Max(0, LineBody - text)
                     /\ ~LinePainted => pad = 0

C4_Witness ==
    /\ LineStarted /\ LineDone /\ LineWrap
    /\ IsSome(lineIn.region) /\ ~lineIn.dr.background
    /\ Cardinality(RowSpans(LineOut)) = 3
    /\ \A span \in RowSpans(LineOut) : RowPad(LineOut, span) = 1

\* the indices in out of the text items (characters and expanded tabs)
RECURSIVE TextIdxFrom(_, _)
TextIdxFrom(out, i) ==
    IF i > Len(out) THEN <<>>
    ELSE (IF IsTextItem(out[i]) THEN <<i>> ELSE <<>>) \o TextIdxFrom(out, i + 1)
TextIdx(out) == TextIdxFrom(out, 1)

\* the character a text item stands for
ItemChar(it) == IF it.k = "ch" THEN it.c ELSE "TAB"

\* the characters drawn so far are the first characters of the line, each
\* once and in order; all of them when the line has been drawn to its end
DrawnIsPrefixOfLine ==
    LET idx == TextIdx(LineOut) IN
    /\ Len(idx) <= Len(lineIn.text)
    /\ \A j \in 1..Len(idx) : ItemChar(LineOut[idx[j]]) = lineIn.text[j]
    /\ LineDone => Len(idx) = Len(lineIn.text)

\* the columns of the text items of the row before index i
ColsBefore(out, span, i) ==
    SumSeq([h \in 1..(i - span[1]) |->
               LET it == out[span[1] + h - 1]
               IN  IF IsTextItem(it) THEN it.p[1] ELSE 0])

\* a tab of the row is written in full when it fits before the margin and
\* is otherwise cut at the margin and ends the text of its row
TabSplitAtMargin(out, span, i) ==
    LET before == ColsBefore(out, span, i)
        n == lineIn.dr.canvas.tab_width
    IN  IF before + n <= LineBody
        THEN out[i].p[1] = n
        ELSE /\ out[i].p[1] = LineBody - before
             /\ \A h \in (i + 1)..span[2] : ~IsTextItem(out[h])

TabsOfRow(out, span) ==
    {i \in span[1]..span[2] : out[i].k = "sp" /\ out[i].c = "tab"}

\* C5, as claimed: with tab_width = N > 0 every tab of a drawn line is N
\* spaces unless that crosses the right margin of its visual row; then it is
\* cut at the margin, the rest of the tab is dropped and the next row
\* resumes with the character after the tab.
C5_AsClaimed ==
    (LineStarted /\ lineIn.dr.canvas.tab_width > 0) =>
        /\ \A span \in RowSpans(LineOut) :
             \A i \in TabsOfRow(LineOut, span) : TabSplitAtMargin(LineOut, span, i)
        /\ DrawnIsPrefixOfLine

\* C5, amended: with text_wrap = Char and tab_width = N > 0 every tab is N
\* spaces unless that crosses the right margin of its visual row; then it is
\* cut at the margin, the rest of the tab is dropped and the next row
\* resumes with the character after the tab.  With text_wrap = Never every
\* tab is N spaces, also when they cross the right margin.
C5_TabExpansion ==
    (LineStarted /\ lineIn.dr.canvas.tab_width > 0) =>
        /\ \A span \in RowSpans(LineOut) :
             \A i \in TabsOfRow(LineOut, span) :
                IF LineWrap
                THEN TabSplitAtMargin(LineOut, span, i)
                ELSE LineOut[i].p[1] = lineIn.dr.canvas.tab_width
        /\ DrawnIsPrefixOfLine

C5_Witness ==
    /\ LineStarted /\ LineDone /\ LineWrap
    /\ lineIn.text = <<"W", "TAB", "a">>
    /\ lineIn.dr.canvas.tab_width = 2
    /\ Cardinality(RowSpans(LineOut)) = 2
    /\ \E i \in 1..Len(LineOut) : LineOut[i] = Sp(1, "tab")

\* the columns of the text items out[i..last] when a zero-width joiner
\* counts 0 and takes the width of the character after it
RECURSIVE ZwjCols(_, _, _, _)
ZwjCols(out, i, last, after_zwj) ==
    IF i > last THEN 0
    ELSE LET it == out[i] IN
         IF ~IsTextItem(it) THEN ZwjCols(out, i + 1, last, after_zwj)
         ELSE IF it.k = "sp" THEN it.p[1] + ZwjCols(out, i + 1, last, FALSE)
         ELSE IF it.c = "ZWJ" THEN ZwjCols(out, i + 1, last, TRUE)
         ELSE IF after_zwj THEN ZwjCols(out, i + 1, last, FALSE)
         ELSE width_cjk(it.c) + ZwjCols(out, i + 1, last, FALSE)

\* C6: wherever A, U+200D, B sits in a drawn line, the drawn width advances
\* by width(A) only: the joiner counts 0 and so does the character after it.
C6_AsClaimed ==
    LineStarted =>
        \A span \in RowSpans(LineOut) :
            RowText(LineOut, span) = ZwjCols(LineOut, span[1], span[2], FALSE)

\* the token, the style and the byte offset of the j-th character of the line
TokOf(j) ==
    IF Len(lineIn.tokens) = 2 /\ j > Len(lineIn.tokens[1].text) THEN 2 ELSE 1
StyleOf(j) == lineIn.tokens[TokOf(j)].style
ByteOff(j) == StrLen(SubSeq(lineIn.text, 1, j - 1))
\* the offset at which the Canvas looks for a region boundary before the
\* j-th character: its byte offset when wrapping; without wrapping the byte
\* offset of its token plus the number of characters before it in the token
LookupOff(j) ==
    IF LineWrap THEN ByteOff(j)
    ELSE IF TokOf(j) = 1 THEN j - 1
    ELSE StrLen(lineIn.tokens[1].text) + (j - 1 - Len(lineIn.tokens[1].text))
HasRange == IF IsSome(lineIn.region) THEN IsSome(Unwrap(lineIn.region).range) ELSE FALSE
RangeOf == Unwrap(Unwrap(lineIn.region).range)
\* a boundary of the region lies at the byte offset of the j-th character
BoundaryAt(j) == HasRange /\ ByteOff(j) \in {RangeOf[1], RangeOf[2]}
\* the Canvas changes to or from the region colours before the j-th character
BoundaryDrawnAt(j) == HasRange /\ LookupOff(j) \in {RangeOf[1], RangeOf[2]}

SgrBetween(out, a, b) == {i \in (a + 1)..(b - 1) : out[i].k = "sgr"}
FontSgr == {<<1>>, <<4>>, <<22>>, <<24>>}

WriterIds == {writer[i].id : i \in 1..Len(writer)}
\* the places where the writer passes from the bytes of one call to another
WriterTurns == {i \in 1..(Len(writer) - 1) : writer[i].id # writer[i + 1].id}
\* what the call p has written
Block(p) ==
    LET mine(x) == x.id = p
        s == SelectSeq(writer, mine)
    IN  [i \in 1..Len(s) |-> s[i].item]

\* the buffer a print of file gives when nothing fails
Rendered(file, pr) ==
    LET d0 == Drawer_new(pr.opts, theme(pr), file.chunks)
        d1 == draw_header(d0, file.path)
        d2 == draw_body(d1, file,
                        LineHighlighter_new(find_syntax(file.path).syntax, theme(pr)))
    IN  draw_footer(d2).canvas.out

\* C1: when print is called from several worker threads on one printer,
\* every file is written to the shared writer by a thread that holds the
\* lock of the writer, so what one call writes is one contiguous block of
\* the stream: the bytes of two files are never interleaved.
C1_FilesNotInterleaved ==
    /\ \A w \in Workers : workers[w].pc \in {"write", "flush"} => lock = Some(w)
    /\ writer # <<>> => Cardinality(WriterTurns) + 1 = Cardinality(WriterIds)

C1_Witness ==
    \E w1, w2 \in Workers :
        /\ workers[w1].pc = "write" /\ workers[w1].sent > 0
        /\ workers[w2].pc = "lock"
        /\ Cardinality(WriterIds) = 2

\* C2: a print either renders its whole buffer or returns an error before
\* any byte of its file reaches the shared writer: when syntax lookup or
\* drawing the header, the body or the footer fails, print returns the
\* error and the writer holds no byte of that call; a print that comes to
\* take the lock has rendered header, body and footer in full.
C2_FailedRenderWritesNothing ==
    /\ \A p \in 1..Len(prints) :
          prints[p].failed => (prints[p].state = "err" /\ p \notin WriterIds)
    /\ \A w \in Workers :
          workers[w].pc = "lock"
          => buf_of(workers[w]) = Rendered(workers[w].file, printer)

C2_Witness ==
    /\ \E p \in 1..Len(prints) :
          prints[p].file = FileA /\ prints[p].failed /\ prints[p].state = "err"
    /\ \E p \in 1..Len(prints) :
          prints[p].file = FileGone /\ prints[p].failed /\ prints[p].state = "err"
    /\ Cardinality(WriterIds) = 1
    /\ \A w \in Workers : workers[w].pc = "idle"

Written ==
    {writer[i].item : i \in 1..Len(writer)}
    \cup UNION {IF IsSome(workers[w].drawer)
                THEN {buf_of(workers[w])[i] : i \in 1..Len(buf_of(workers[w]))}
                ELSE {} : w \in Workers}

\* ESC[38;5;n m, ESC[48;5;n m and ESC[38;2;r;g;b m, ESC[48;2;r;g;b m
Is256Escape(x) == x.k = "sgr" /\ Len(x.p) = 3 /\ x.p[1] \in {38, 48} /\ x.p[2] = 5
Is24BitEscape(x) == x.k = "sgr" /\ Len(x.p) = 5 /\ x.p[1] \in {38, 48} /\ x.p[2] = 2

\* a colour that is written in a 3x / 4x form or not at all
IsAnsi8(c) == c.a = 1 \/ (c.a = 0 /\ c.r <= 7)

\* the colours a print of the printer pr hands to set_fg and set_bg: of the
\* gutter, the line numbers, the tokens, the match lines and the regions,
\* and the backgrounds of theme and tokens when background_color is set
UsedColours(pr) ==
    LET t == theme(pr)
        cv == Drawer_new(pr.opts, t, <<>>).canvas
        opt(c) == IF IsSome(c) THEN {Unwrap(c)} ELSE {}
    IN  {Drawer_new(pr.opts, t, <<>>).gutter_color, Unwrap(t.foreground),
         PlainStyle(t).foreground, BlockStyle(t).foreground}
        \cup opt(cv.match_bg) \cup opt(cv.region_fg) \cup opt(cv.region_bg)
        \cup (IF pr.opts.background_color
              THEN opt(t.background)
                   \cup {PlainStyle(t).background, BlockStyle(t).background}
              ELSE {})

LineEscape(code, c) ==
    set_color([lineIn.dr.canvas EXCEPT !.out = <<>>], code, c).out[1]

\* the last escape before index i of out that sets or resets the
\* background (base 40) or the foreground (base 30); ESC[0m when none
LastColour(out, i, base) ==
    LET at == {h \in 1..(i - 1) :
                 /\ out[h].k = "sgr"
                 /\ out[h].p = <<0>> \/ out[h].p[1] \in base..(base + 8)}
    IN  IF at = {} THEN Sgr(<<0>>)
        ELSE out[CHOOSE h \in at : \A g \in at : g <= h]

\* the item at index i is drawn in both region colours, or in neither
InRegionColours(out, i) ==
    /\ LastColour(out, i, 40) = LineEscape(40, Unwrap(lineIn.dr.canvas.region_bg))
    /\ LastColour(out, i, 30) = LineEscape(30, Unwrap(lineIn.dr.canvas.region_fg))
OutOfRegionColours(out, i) ==
    /\ LastColour(out, i, 40) # LineEscape(40, Unwrap(lineIn.dr.canvas.region_bg))
    /\ LastColour(out, i, 30) # LineEscape(30, Unwrap(lineIn.dr.canvas.region_fg))

\* the range [s, e) moved left by n bytes, no range when nothing is left
RangeLeft(range, n) ==
    IF SaturatingSub(range[1], n) = SaturatingSub(range[2], n) THEN None
    ELSE Some(<<SaturatingSub(range[1], n), SaturatingSub(range[2], n)>>)

\* C12: on a match line with region [s, e) that wraps, after each wrap
\* break the region is [s, e) moved left by the bytes of the line consumed
\* so far (a tab cut at the break included) and is dropped when nothing of
\* it is left, and the characters drawn in the region colours are exactly
\* those at the byte offsets s .. e - 1 of the line.
C12_RegionOverRows ==
    (LineStarted /\ LineWrap /\ HasRange) =>
        LET idx == TextIdx(LineOut) IN
        /\ lineRun.pc = "rows" /\ lineRun.st.rows > 0
           => Unwrap(lineRun.st.region).range
                = RangeLeft(RangeOf, StrLen(SubSeq(lineIn.text, 1, Len(idx))))
        /\ \A j \in 1..Len(idx) :
             IF RangeOf[1] <= ByteOff(j) /\ ByteOff(j) < RangeOf[2]
             THEN InRegionColours(LineOut, idx[j])
             ELSE OutOfRegionColours(LineOut, idx[j])

\* a region that begins with a tab that is cut at the wrap break of the
\* first row and ends in the second row
C12_Witness ==
    /\ LineDone /\ LineWrap /\ HasRange
    /\ lineRun.st.rows = 2
    /\ lineIn.text = <<"W", "TAB", "a">>
    /\ lineIn.dr.canvas.tab_width = 2
    /\ RangeOf = <<3, 5>>
    /\ Len(lineIn.tokens) = 2
    /\ InRegionColours(LineOut, TextIdx(LineOut)[3])

(***************************************************************************)
(* Font styles on a match line                                             *)
(***************************************************************************)
\* the first and the last character of the t-th token of the line
TokFirst(t) == IF t = 1 THEN 1 ELSE Len(lineIn.tokens[1].text) + 1
TokLast(t) ==
    IF t = 1 /\ Len(lineIn.tokens) = 2 THEN Len(lineIn.tokens[1].text)
    ELSE Len(lineIn.text)

\* the indices of out after the character before the j-th and before the
\* j-th character, and after the j-th character up to the next one
BeforeChar(out, j) ==
    {i \in 1..Len(out) :
        /\ i < TextIdx(out)[j]
        /\ j > 1 => i > TextIdx(out)[j - 1]}
AfterChar(out, j) ==
    {i \in 1..Len(out) :
        /\ i > TextIdx(out)[j]
        /\ j < Len(TextIdx(out)) => i < TextIdx(out)[j + 1]}

\* C13: on a match line the foreground of a token is not in effect on the
\* characters inside the region, and for every bold token, wherever it
\* starts, ESC[1m is written before its text and ESC[22m after it.
C13_AsClaimed ==
    (LineDone /\ IsSome(lineIn.region) /\ DrawnIsPrefixOfLine) =>
        /\ \A j \in 1..Len(lineIn.text) :
             (HasRange /\ LineWrap
              /\ RangeOf[1] <= ByteOff(j) /\ ByteOff(j) < RangeOf[2])
             => LastColour(LineOut, TextIdx(LineOut)[j], 30)
                  # LineEscape(30, StyleOf(j).foreground)
        /\ \A t \in 1..Len(lineIn.tokens) :
             ("bold" \in lineIn.tokens[t].style.font_style
              /\ TokFirst(t) <= TokLast(t))
             => /\ \E i \in BeforeChar(LineOut, TokFirst(t)) : LineOut[i] = Sgr(<<1>>)
                /\ \E i \in AfterChar(LineOut, TokLast(t)) : LineOut[i] = Sgr(<<22>>)

(***************************************************************************)
(* A file drawn without the grid                                           *)
(***************************************************************************)
\* the workers whose print has rendered its file to the end
RenderedBy == {w \in Workers : workers[w].pc \in {"lock", "write", "flush"}}

\* the pieces of rule and of grid in a buffer
RuleChars == {"BOX-H", "BOX-DH", "BOX-UH"}
GridChars == {"BOX-V", "BOX-VR", "BOX-DH", "BOX-UH"}
LitsOf(buf, chars) == {i \in 1..Len(buf) : buf[i].k = "lit" /\ buf[i].c \in chars}

\* the gutter of the numbered row whose number is at index i: the spaces
\* that align the number to the right, a space, the number, a space and
\* then the line
NumberGutter(buf, i, lnum_width) ==
    /\ i > 2 /\ i + 2 <= Len(buf)
    /\ buf[i - 2] = Sp(lnum_width - num_digits(buf[i].p[1]), "gutter")
    /\ buf[i - 1] = Lit(" ")
    /\ buf[i + 1] = Lit(" ")
    /\ buf[i + 2].k # "lit"

\* C14, as claimed: with grid = false the output of a file has no
\* horizontal rule at all, at the top, under the header or at the bottom,
\* and the gutter of a numbered row is the number, aligned to the right,
\* and a space.
C14_AsClaimed ==
    \A w \in RenderedBy :
        ~printer.opts.grid =>
            /\ LitsOf(buf_of(workers[w]), RuleChars) = {}
            /\ \A i \in 1..Len(buf_of(workers[w])) :
                 buf_of(workers[w])[i].k = "num"
                 => NumberGutter(buf_of(workers[w]), i, Unwrap(workers[w].drawer).lnum_width)

\* C14: with grid = false the rule above the path is still drawn, over
\* term_width columns, and it is the only rule: there is none under the
\* header and none at the bottom, and no piece of the grid anywhere; the
\* gutter of a numbered row is lnum_width + 2 columns: the number aligned
\* to the right behind one space, and one space after it.
C14_NoGrid ==
    \A w \in RenderedBy :
        ~printer.opts.grid =>
            LET buf == buf_of(workers[w]) IN
            /\ LitsOf(buf, GridChars) = {}
            /\ LitsOf(buf, RuleChars) \subseteq 1..(CHOOSE i \in LfAt(buf) : \A j \in LfAt(buf) : i <= j)
            /\ SumSeq([i \in 1..Len(buf) |->
                         IF i \in LitsOf(buf, RuleChars) THEN buf[i].p[1] ELSE 0])
                 = printer.opts.term_width
            /\ \A i \in 1..Len(buf) :
                 buf[i].k = "num"
                 => NumberGutter(buf, i, Unwrap(workers[w].drawer).lnum_width)

C14_Witness ==
    \E w \in Workers :
        /\ workers[w].pc = "flush"
        /\ ~printer.opts.grid
        /\ workers[w].file = FileB
        /\ buf_of(workers[w])[2] = Rep(3, "BOX-H")
        /\ \E i \in 1..Len(buf_of(workers[w])) : buf_of(workers[w])[i] = Num(4)

(***************************************************************************)
(* first_only                                                              *)
(***************************************************************************)
\* the workers whose print has drawn the body of its file
BodyDrawnBy == {w \in Workers : workers[w].pc \in {"footer", "lock", "write", "flush"}}

IsNum(x) == x.k = "num"
\* the line numbers written to a buffer, in the order they were written
NumsOf(buf) == [i \in 1..Len(SelectSeq(buf, IsNum)) |-> SelectSeq(buf, IsNum)[i].p[1]]

\* C15: with first_only the body is the lines of the first chunk, each
\* once and in order up to the last line of that chunk; no separator line
\* and no line of a later chunk is written, however many chunks there are.
C15_FirstChunkOnly ==
    \A w \in BodyDrawnBy :
        printer.opts.first_only =>
            LET chunk == workers[w].file.chunks[1] IN
            /\ NumsOf(buf_of(workers[w]))
                 = [i \in 1..(chunk[2] - chunk[1] + 1) |-> chunk[1] + i - 1]
            /\ \A i \in 1..Len(buf_of(workers[w])) :
                 buf_of(workers[w])[i].c \notin {"...", "... ", "BOX-DASH", "BOX-VR"}

C15_Witness ==
    \E w \in Workers :
        /\ workers[w].pc = "footer"
        /\ printer.opts.first_only
        /\ workers[w].file = FileC
        /\ NumsOf(buf_of(workers[w])) = <<1>>

(***************************************************************************)
(* print of a file without chunks or without matches                       *)
(***************************************************************************)
NothingToPrint(file) == file.chunks = <<>> \/ file.line_matches = <<>>

\* C16: print of a file whose chunks or whose line_matches are empty
\* returns Ok at once: the call is never under way, it leaves the writer
\* and the lock of the writer as they are, and no byte of it is ever in the
\* writer.
C16_NothingToPrint ==
    /\ [](\A p \in 1..Len(prints) :
            NothingToPrint(prints[p].file)
            => /\ prints[p].state = "ok"
               /\ \A i \in 1..Len(writer) : writer[i].id # p)
    /\ [][(/\ Len(prints') > Len(prints)
            /\ NothingToPrint(prints'[Len(prints')].file))
           => /\ writer' = writer /\ lock' = lock
              /\ prints'[Len(prints')].state = "ok"]_vars

C16_Witness ==
    /\ Len(prints) = 1
    /\ prints[1].file = FileNoChunk
    /\ prints[1].state = "ok"
    /\ writer = <<>> /\ lock = None

(***************************************************************************)
(* A write to the output that fails                                        *)
(***************************************************************************)
\* the step in which write_all (from "write") or flush (from "flush") of
\* the call of worker w gives an error
WriteFails(w) ==
    /\ workers[w].pc \in {"write", "flush"}
    /\ workers'[w].pc = "idle"
    /\ prints'[workers[w].id].state # "ok"

\* C17: when write_all or flush of the rendered buffer fails, the print
\* returns the error at once: it writes nothing more, then or later, and
\* gives the lock back; and the status with which the process leaves
\* after an error of a print is not 0.
C17_WriteErrorReturned ==
    /\ [][\A w \in Workers :
            WriteFails(w) => /\ prints'[workers[w].id].state = "err"
                             /\ writer' = writer
                             /\ lock' = None]_vars
    /\ [][\A p \in 1..Len(prints) :
            prints[p].state = "err" => /\ prints'[p].state = "err"
                                       /\ Block(p)' = Block(p)]_vars
    /\ []((\E p \in 1..Len(prints) : prints[p].state = "err") /\ status # None
           => status \notin {None, Some(0)})

\* a print whose write failed after a part of the buffer had been written
C17_Witness ==
    /\ status = Some(2)
    /\ \E p \in 1..Len(prints) :
         /\ prints[p].state = "err" /\ ~prints[p].failed
         /\ prints[p].file = FileA
         /\ Block(p) # <<>>

(***************************************************************************)
(* The exit status                                                         *)
(***************************************************************************)
\* an item of the input or a print of the run gave an error
RunFailed == \E p \in 1..Len(prints) : prints[p].state = "err"
\* a print of the run has written the matches of its file to the writer
MatchRendered ==
    \E p \in 1..Len(prints) : prints[p].state = "ok" /\ Block(p) # <<>>

C19_ThemeResolution ==
    IsSome(printer.opts.theme) =>
        LET name == Unwrap(printer.opts.theme) IN
        /\ name \in DOMAIN BatThemes
           => printer.ok /\ theme(printer) = BatThemes[name]
        /\ name \in DOMAIN DefaultThemes \ DOMAIN BatThemes
           => printer.ok /\ theme(printer) = DefaultThemes[name]
        /\ name \notin DOMAIN BatThemes \cup DOMAIN DefaultThemes
           => /\ ~printer.ok
              /\ printer.error = <<"Unknown theme", name>>
              /\ prints = <<>> /\ writer = <<>>
              /\ \A w \in Workers : workers[w] = IdleFrame
              /\ status \in {None, Some(2)}
        /\ \A w \in Workers :
             (printer.ok /\ IsSome(workers[w].drawer))
             => Unwrap(workers[w].drawer).theme =
                  (IF name \in DOMAIN BatThemes THEN BatThemes ELSE DefaultThemes)[name]

\* a file rendered with the theme of bat's set for a name of both sets
C19_Witness ==
    /\ printer.opts.theme = Some("Solarized (dark)")
    /\ BatThemes["Solarized (dark)"] # DefaultThemes["Solarized (dark)"]
    /\ \E w \in Workers :
         /\ workers[w].pc = "flush"
         /\ Unwrap(workers[w].drawer).theme = ThemeSolarizedBat

(***************************************************************************)
(* Syntax lookup                                                           *)
(***************************************************************************)
\* C20: find_syntax gives a syntax for the path of every file that is
\* printed, plain text when nothing else is found: it never gives an error
\* that print would return.
C20_AsClaimed ==
    \A p \in 1..Len(prints) :
        ~NothingToPrint(prints[p].file) => find_syntax(prints[p].file.path).ok

(***************************************************************************)
(* The lines the highlighter is given                                      *)
(***************************************************************************)
\* the places where a line of buf ends: its line feeds, and its last byte
LineEndsOf(buf) == {i \in 1..Len(buf) : buf[i] = "LF" \/ i = Len(buf)}
\* the end of the k-th line of buf, 0 for k = 0
LineEnd(buf, k) ==
    IF k = 0 THEN 0
    ELSE CHOOSE e \in LineEndsOf(buf) : Cardinality({x \in LineEndsOf(buf) : x <= e}) = k
\* the k-th line of buf, its line feed included
LineOf(buf, k) == SubSeq(buf, LineEnd(buf, k - 1) + 1, LineEnd(buf, k))

InChunk(file, lnum) ==
    \E c \in 1..Len(file.chunks) : file.chunks[c][1] <= lnum /\ lnum <= file.chunks[c][2]

\* the loop of draw_body of the print of worker w, from the Drawer that has
\* drawn the header
BodyRun(w) ==
    draw_body_loop(draw_header(Drawer_new(printer.opts, theme(printer),
                                          workers[w].file.chunks),
                               workers[w].file.path),
                   workers[w].file,
                   LineHighlighter_new(workers[w].syntax, theme(printer)))

\* C21: when draw_body has drawn its last line, the lines the highlighter
\* has been given are the lines 1, 2, ... of the contents up to that line,
\* each once and in this order, through highlight when the line is inside a
\* chunk and through skip_line when it is before the first chunk or between
\* two chunks.
C21_EveryLineParsedOnce ==
    \A w \in BodyDrawnBy :
        LET parsed == BodyRun(w).hl.parsed
            drawn == NumsOf(buf_of(workers[w]))
        IN  /\ workers[w].pc = "footer" => buf_of(workers[w]) = BodyRun(w).dr.canvas.out
            /\ drawn # <<>> => Len(parsed) = drawn[Len(drawn)]
            /\ \A k \in 1..Len(parsed) :
                 /\ parsed[k].line = LineOf(workers[w].file.contents, k)
                 /\ parsed[k].op = IF InChunk(workers[w].file, k)
                                   THEN "highlight" ELSE "skip_line"

\* a line before the first chunk that opens a block, and the line of the
\* chunk; the line behind the chunk is not parsed
C21_Witness ==
    \E w \in Workers :
        /\ workers[w].pc = "footer"
        /\ workers[w].file = FileD
        /\ NumsOf(buf_of(workers[w])) = <<2>>
        /\ BodyRun(w).hl.parsed =
             <<[op |-> "skip_line", line |-> <<"b", "LF">>],
               [op |-> "highlight", line |-> <<"a", "b", "LF">>]>>

(***************************************************************************)
(* Separator lines                                                         *)
(***************************************************************************)
IsSeparator(x) == x.k = "lit" /\ x.c \in {"...", "... "}
IsNumOrSeparator(x) == IsNum(x) \/ IsSeparator(x)

\* the numbered rows and the separator lines of a buffer in their order:
\* the line number for a row, 0 for a separator line
RowMarks(buf) ==
    [i \in 1..Len(SelectSeq(buf, IsNumOrSeparator)) |->
        IF IsNum(SelectSeq(buf, IsNumOrSeparator)[i])
        THEN SelectSeq(buf, IsNumOrSeparator)[i].p[1] ELSE 0]

\* the lines of the chunks from the c-th on with a 0 between two chunks
RECURSIVE ChunkMarks(_, _)
ChunkMarks(chunks, c) ==
    IF c > Len(chunks) THEN <<>>
    ELSE [i \in 1..(chunks[c][2] - chunks[c][1] + 1) |-> chunks[c][1] + i - 1]
         \o (IF c < Len(chunks) THEN <<0>> ELSE <<>>)
         \o ChunkMarks(chunks, c + 1)

\* C22: without first_only the body of a file is the lines of its chunks
\* with one separator line between the last line of a chunk and the first
\* line of the next and none elsewhere, not before the first chunk and not
\* behind the last line: n chunks have n - 1 separator lines.
C22_SeparatorBetweenChunks ==
    \A w \in BodyDrawnBy :
        ~printer.opts.first_only =>
            /\ RowMarks(buf_of(workers[w])) = ChunkMarks(workers[w].file.chunks, 1)
            /\ Len(SelectSeq(buf_of(workers[w]), IsSeparator))
                 = Len(workers[w].file.chunks) - 1

C22_Witness ==
    \E w \in Workers :
        /\ workers[w].pc = "footer"
        /\ ~printer.opts.first_only
        /\ workers[w].file = FileC
        /\ RowMarks(buf_of(workers[w])) = <<1, 0, 3, 0, 5>>

(***************************************************************************)
(* Match lines                                                             *)
(***************************************************************************)
\* the calls of draw_line of the print of worker w
LinesDrawn(w) == Unwrap(workers[w].drawer).lines

\* C23: a line of a chunk is drawn as a match line, with the Region of a
\* LineMatch of its line number, if and only if line_matches has an entry
\* with its line number; line_matches is ascending by line_number and may
\* have entries without range and several entries with one line number.
C23_AsClaimed ==
    \A w \in BodyDrawnBy :
        \A i \in 1..Len(LinesDrawn(w)) :
            LET l == LinesDrawn(w)[i]
                ms == workers[w].file.line_matches
            IN  /\ IsSome(l.region) <=> \E m \in 1..Len(ms) : ms[m].line_number = l.lnum
                /\ IsSome(l.region)
                   => \E m \in 1..Len(ms) :
                        ms[m] = LineMatch(l.lnum, Unwrap(l.region).range)

(***************************************************************************)
(* The gutter of the rows of the body                                      *)
(***************************************************************************)
\* the columns an item takes on the screen; a piece of rule or grid, a
\* space and a character of a path take one column each
ItemCols(x) ==
    CASE x.k \in {"ch", "sp"} -> x.p[1]
      [] x.k = "num" -> num_digits(x.p[1])
      [] x.k = "lit" -> x.p[1] * (CASE x.c = "..." -> 3
                                    [] x.c = "... " -> 4
                                    [] x.c \in {"a.rs", "b.rs", "gone"} -> 4
                                    [] x.c = "n.h" -> 3
                                    [] OTHER -> 1)
      [] OTHER -> 0

IsGutterItem(x) == x.k \in {"lit", "num"} \/ (x.k = "sp" /\ x.c = "gutter")

\* the rows of the body that show a line: not the rows of the header (the
\* rules and the path), not the separator lines and not the footer
NotOfALine(path) ==
    RuleChars \cup {"...", "... ", "BOX-DASH", "BOX-VR", path}
LineRows(buf, path) ==
    {span \in RowSpans(buf) :
        \A i \in span[1]..span[2] : buf[i].k = "lit" => buf[i].c \notin NotOfALine(path)}

\* the columns of the gutter of a row
RowGutter(buf, span) ==
    SumSeq([i \in 1..(span[2] - span[1] + 1) |->
               IF IsGutterItem(buf[span[1] + i - 1])
               THEN ItemCols(buf[span[1] + i - 1]) ELSE 0])

\* C24: every visual row of a line of the body begins with a gutter of
\* gutter_width columns, which is lnum_width + 2 without the grid and
\* lnum_width + 4 with it, the row with the line number and the rows a
\* wrapped line goes on in alike; the text of a row comes behind its gutter.
C24_GutterWidth ==
    \A w \in BodyDrawnBy :
        LET buf == buf_of(workers[w])
            dr == Unwrap(workers[w].drawer)
        IN  /\ gutter_width(dr) = dr.lnum_width + (IF printer.opts.grid THEN 4 ELSE 2)
            /\ \A span \in LineRows(buf, workers[w].file.path) :
                 /\ RowGutter(buf, span) = gutter_width(dr)
                 /\ \A i, j \in span[1]..span[2] :
                      (IsGutterItem(buf[i]) /\ (IsTextItem(buf[j]) \/ IsPadItem(buf[j])))
                      => i < j

\* a line that is wrapped without the grid: two rows for one line number
C24_Witness ==
    \E w \in Workers :
        /\ workers[w].pc = "footer"
        /\ ~printer.opts.grid
        /\ workers[w].file = FileDup
        /\ NumsOf(buf_of(workers[w])) = <<1, 2, 3>>
        /\ Cardinality(LineRows(buf_of(workers[w]), "a.rs")) = 4

(***************************************************************************)
(* The region of a match line without wrapping                             *)
(***************************************************************************)
\* the characters of a drawn line, by their place in the line, that are
\* drawn in the region colours
RegionChars(out) ==
    {j \in 1..Len(TextIdx(out)) : InRegionColours(out, TextIdx(out)[j])}

\* the line of lineIn as a Drawer that wraps draws it
DrawnWrapping ==
    draw_line([lineIn.dr EXCEPT !.canvas.wrap = TRUE], lineIn.tokens, lineIn.lnum,
              lineIn.region).canvas.out

\* the columns of the line when every tab is tab_width columns
LineCols ==
    SumSeq([j \in 1..Len(lineIn.text) |->
               IF lineIn.text[j] = "TAB" THEN lineIn.dr.canvas.tab_width
               ELSE width_cjk(lineIn.text[j])])

\* C26: a match line with a range that fits in one row has the same
\* characters in the region colours with text_wrap = Never as with
\* text_wrap = Char, and they are the characters whose bytes are in the
\* range, also when characters of several bytes are before or in the range.
C26_AsClaimed ==
    (LineDone /\ ~LineWrap /\ HasRange /\ LineCols <= LineBody) =>
        /\ RegionChars(LineOut) = RegionChars(DrawnWrapping)
        /\ RegionChars(LineOut) =
             {j \in 1..Len(lineIn.text) :
                 RangeOf[1] <= ByteOff(j) /\ ByteOff(j) < RangeOf[2]}

(***************************************************************************)
(* Wrapping: what is drawn and where the next row resumes                  *)
(***************************************************************************)
\* the text of a sequence of tokens
RECURSIVE TokensText(_)
TokensText(tokens) ==
    IF tokens = <<>> THEN <<>> ELSE Head(tokens).text \o TokensText(Tail(tokens))

\* the place in the line of the character that did not fit into the row
\* drawn last: the tab that has been cut at the margin, else the character
\* behind the last one written
NotFit ==
    LET idx == TextIdx(LineOut) IN
    IF idx # <<>> /\ LineOut[idx[Len(idx)]].k = "sp"
       /\ LineOut[idx[Len(idx)]].p[1] < lineIn.dr.canvas.tab_width
    THEN Len(idx)
    ELSE Len(idx) + 1

\* C25: for every token sequence and body width the characters written
\* over the rows of a line are the characters of the chomped line, each
\* once and in order and all of them when the line is done, which it is
\* after no more rows than it has characters and one; after a Break the
\* tokens left begin at the character that did not fit, in its token.
C25_AsClaimed ==
    LineStarted =>
        /\ DrawnIsPrefixOfLine
        /\ lineRun.st.rows <= Len(lineIn.text) + 1
        /\ (lineRun.pc = "rows" /\ lineRun.st.rows > 0)
           => /\ TokensText(lineRun.st.tokens) = Suffix(lineIn.text, NotFit)
              /\ lineRun.st.tokens # <<>>
              /\ lineRun.st.tokens[1].style = StyleOf(NotFit)

(***************************************************************************)
(* The wrap loop of draw_line comes to an end                              *)
(***************************************************************************)
\* the bytes of a sequence of tokens
TokensBytes(tokens) == StrLen(TokensText(tokens))

\* C27: with text_wrap = Char and term_width >= 10, for every chunk list
\* and line the body width is term_width - gutter_width and positive, and
\* after every row that ends at a Break fewer bytes are left to draw than
\* before the row.
C27_AsClaimed ==
    /\ [](LineStarted =>
            /\ lineRun.st.body_width = lineIn.dr.term_width - gutter_width(lineIn.dr)
            /\ lineRun.st.body_width > 0)
    /\ [][(lineRun.pc = "rows" /\ lineRun'.pc = "rows")
           => TokensBytes(lineRun'.st.tokens) < TokensBytes(lineRun.st.tokens)]_vars

(***************************************************************************)
(* The rules and the separator line                                        *)
(***************************************************************************)
\* the columns of a row
RowCols(out, span) ==
    SumSeq([i \in 1..(span[2] - span[1] + 1) |-> ItemCols(out[span[1] + i - 1])])

\* the rows with a rule or with a separator line
RuleRows(out) ==
    {span \in RowSpans(out) :
        \E i \in span[1]..span[2] :
            out[i].k = "lit" /\ out[i].c \in RuleChars \cup {"...", "... "}}

\* the column of the item at index i of a row
ColOf(out, span, i) ==
    1 + SumSeq([h \in 1..(i - span[1]) |-> ItemCols(out[span[1] + h - 1])])

\* the column of the vertical bar in the row of a line number
BarCol ==
    LET out == draw_line_number(lineIn.dr, lineIn.lnum, FALSE).canvas.out
    IN  ColOf(out, <<1, Len(out)>>, CHOOSE i \in 1..Len(out) : out[i].c = "BOX-V")

DrawerOut == lineRun.st.dr.canvas.out

\* C28: every rule and every separator line is term_width columns wide,
\* with the grid the joiner of each is in the column of the vertical bar of
\* the rows with a line number, whatever lnum_width is, and lnum_width + 1
\* - 3 is not below zero when a separator line is drawn.
C28_AsClaimed ==
    lineRun.pc \in {"header", "separator", "footer"} =>
        /\ \A span \in RuleRows(DrawerOut) :
              /\ RowCols(DrawerOut, span) = lineIn.dr.term_width
              /\ \A i \in span[1]..span[2] :
                   (DrawerOut[i].k = "lit" /\ DrawerOut[i].c \in {"BOX-DH", "BOX-UH", "BOX-VR"})
                   => ColOf(DrawerOut, span, i) = BarCol
        /\ lineRun.pc = "separator" => lineIn.dr.lnum_width + 1 - 3 >= 0

(***************************************************************************)
(* The lock of the writer                                                  *)
(***************************************************************************)
\* C29: the lock of the writer is held by a print exactly while it writes
\* and flushes its finished buffer and is free again when the print has
\* returned, with Ok or with the error of a write; the holder of the lock
\* can always take its next step, it waits for nobody; and when the threads
\* go on, every print that has rendered its file gets the lock, writes and
\* returns: no print waits for the lock for ever.
C29_LockHeldForWriteOnly ==
    /\ [](\A w \in Workers :
            /\ lock = Some(w) <=> workers[w].pc \in {"write", "flush"}
            /\ workers[w].pc \in {"write", "flush"}
               => /\ buf_of(workers[w]) = Rendered(workers[w].file, printer)
                  /\ ENABLED (WriteAll(w) \/ Flush(w)))
    /\ [][\A w \in Workers :
            (lock = Some(w) /\ workers'[w].pc = "idle") => lock' = None]_vars
    /\ \A w \in Workers :
         /\ (workers[w].pc = "lock") ~> (lock = Some(w))
         /\ (lock = Some(w)) ~> (workers[w].pc = "idle" /\ lock # Some(w))

\* a print that waits for the lock while the holder's write fails
C29_Witness ==
    \E w1, w2 \in Workers :
        /\ workers[w1].pc = "lock"
        /\ workers[w2].pc = "idle"
        /\ lock = None
        /\ writer # <<>>
        /\ \E p \in 1..Len(prints) :
             prints[p].state = "err" /\ ~prints[p].failed /\ Block(p) # <<>>
(***************************************************************************)
(* C30                                                                     *)
(***************************************************************************)
\* the bytes of the lines, one after the other
RECURSIVE Joined(_)
Joined(lines) ==
    IF lines = <<>> THEN <<>> ELSE lines[1].bytes \o Joined(Tail(lines))

\* C30: LinesInclusive partitions the buffer. The lines given so far, joined
\* in order, are the buffer up to the iterator's position, and the whole
\* buffer when next has given None; the lines are numbered 1, 2, 3, ...; no
\* line is empty, a line feed is the last byte of its line, and every line
\* but the last ends with a line feed; a buffer that ends without a line feed
\* has its rest as last line, an empty buffer gives no line, and a buffer
\* that ends with a line feed gives no empty line after it.
C30_LinesPartitionBuffer ==
    LET lines == lineRun.lines
        buf == lineIn.buf
        n == Len(lines)
    IN  /\ Joined(lines) = SubSeq(buf, 1, lineRun.it.prev)
        /\ \A i \in 1..n :
             /\ lines[i].lnum = i
             /\ lines[i].bytes # <<>>
             /\ \A k \in 1..(Len(lines[i].bytes) - 1) : lines[i].bytes[k] # "LF"
             /\ i < n => lines[i].bytes[Len(lines[i].bytes)] = "LF"
        /\ lineRun.done =>
             /\ Joined(lines) = buf
             /\ buf = <<>> <=> lines = <<>>
             /\ n = Cardinality({k \in 1..Len(buf) : buf[k] = "LF"})
                     + (IF buf # <<>> /\ buf[Len(buf)] # "LF" THEN 1 ELSE 0)
             /\ buf # <<>> =>
                  (lines[n].bytes[Len(lines[n].bytes)] = "LF" <=> buf[Len(buf)] = "LF")

\* a buffer of three lines, the last one without line feed, read to its end
C30_Witness ==
    /\ lineRun.done
    /\ Len(lineRun.lines) = 3
    /\ lineIn.buf[Len(lineIn.buf)] # "LF"
    /\ lineRun.lines[3] = [bytes |-> <<"a">>, lnum |-> 3]

====
